---------------------------- MODULE Spec2Model ----------------------------
(***************************************************************************)
(* A model of termplot's Braille canvas engine (src/src/canvas.rs) and of  *)
(* the autorange helper of its chart layer (src/src/charts.rs).            *)
(*                                                                         *)
(* Option<T> values are modelled as sequences: None is <<>> and Some(v) is *)
(* <<v>>.  Strings written by the renderer are sequences of Unicode code   *)
(* points.  usize arguments are naturals, isize arguments are integers.    *)
(***************************************************************************)
EXTENDS Integers, Sequences, FiniteSets, TLC

VARIABLES
    width,       \* BrailleCanvas.width
    height,      \* BrailleCanvas.height
    blend_mode,  \* BrailleCanvas.blend_mode
    buffer,      \* BrailleCanvas.buffer: one u8 mask per cell
    colors,      \* BrailleCanvas.colors: one Option<Color> per cell
    text_layer,  \* BrailleCanvas.text_layer: one Option<char> per cell
    made,        \* the arguments <<w, h>> the canvas was constructed with
    prev,        \* the canvas as it was when the last call was made
    call,        \* the last public call made by the caller: [op, args]
    ret,         \* the value that call returned (<<>> for a unit function)
    first,       \* when the call repeats the one before: <<[prev, ret]>> of that one
    ops,         \* number of calls made so far
    budget,      \* number of calls the caller makes at most
    reach        \* how far off the canvas the caller's endpoints may lie

canvas == <<width, height, blend_mode, buffer, colors, text_layer>>
vars == <<width, height, blend_mode, buffer, colors, text_layer,
          made, prev, call, ret, first, ops, budget, reach>>

---------------------------------------------------------------------------
(* Bounds of the model *)

MaxW == 2        \* widest canvas constructed, in cells
MaxH == 2        \* tallest canvas constructed, in cells
MaxCells == 2    \* largest width*height constructed
MaxOps == 3      \* longest sequence of calls explored on a canvas of one cell
Over == 1        \* how far past the last pixel / cell an argument may lie
LineOver == 1    \* how far off the canvas an endpoint, corner or centre may lie
MaxRadius == 3    \* largest radius of a circle
MaxAccepts == 8   \* the most writes a limited sink accepts
MaxCircleW == 4   \* widest canvas a circle is drawn on, in cells
MaxCircleH == 2   \* highest canvas a circle is drawn on, in cells
FarOver == 3      \* how far off the canvas the endpoints of a far line may lie
MaxBars == 3      \* longest series given to bar_chart
MaxChartPts == 3  \* longest list of points given to scatter, line_chart, polygon

---------------------------------------------------------------------------
(* Values *)

None == <<>>
Some(v) == <<v>>

Colors == {"Red", "Green"}
OptColors == {None} \cup {Some(c) : c \in Colors}
Chars == {97}                       \* 'a'
BlendModes == {"Overwrite", "KeepFirst"}


\* usize::saturating_sub
SatSub(a, b) == IF a >= b THEN a - b ELSE 0

Pow2(k) == CASE k = 0 -> 1 [] k = 1 -> 2 [] k = 2 -> 4 [] k = 3 -> 8
             [] k = 4 -> 16 [] k = 5 -> 32 [] k = 6 -> 64 [] k = 7 -> 128

\* bit k of the u8 value m
Bit(m, k) == (m \div Pow2(k)) % 2

\* u8 | u8
BitOr(a, b) ==
    LET f(k) == IF Bit(a, k) = 1 \/ Bit(b, k) = 1 THEN Pow2(k) ELSE 0
    IN  f(0) + f(1) + f(2) + f(3) + f(4) + f(5) + f(6) + f(7)

\* u8 & !u8
BitAndNot(a, b) ==
    LET f(k) == IF Bit(a, k) = 1 /\ Bit(b, k) = 0 THEN Pow2(k) ELSE 0
    IN  f(0) + f(1) + f(2) + f(3) + f(4) + f(5) + f(6) + f(7)

\* u8 & u8
BitAnd(a, b) ==
    LET f(k) == IF Bit(a, k) = 1 /\ Bit(b, k) = 1 THEN Pow2(k) ELSE 0
    IN  f(0) + f(1) + f(2) + f(3) + f(4) + f(5) + f(6) + f(7)

---------------------------------------------------------------------------
(* The canvas as a value: a record of the six fields.  Rust indexes its    *)
(* vectors from 0; the sequences here are indexed from 1, so the cell of   *)
(* Rust index i is element i + 1.                                          *)

Self == [width |-> width, height |-> height, blend_mode |-> blend_mode,
         buffer |-> buffer, colors |-> colors, text_layer |-> text_layer]

\* BrailleCanvas::new
New(w, h) ==
    LET size == w * h
    IN  [width |-> w, height |-> h, blend_mode |-> "Overwrite",
         buffer |-> [i \in 1..size |-> 0],
         colors |-> [i \in 1..size |-> None],
         text_layer |-> [i \in 1..size |-> None]]

pixel_width(self) == self.width * 2
pixel_height(self) == self.height * 4

\* clear that empties the three vectors (Vec::clear) instead of filling them
clear_empties(self) ==
    [self EXCEPT !.buffer = <<>>, !.colors = <<>>, !.text_layer = <<>>]

\* clear that leaves the colours in place
clear_keeps_colors(self) ==
    [self EXCEPT !.buffer = [i \in 1..Len(self.buffer) |-> 0],
                 !.text_layer = [i \in 1..Len(self.text_layer) |-> None]]

\* clear that leaves the text overrides in place
clear_keeps_text(self) ==
    [self EXCEPT !.buffer = [i \in 1..Len(self.buffer) |-> 0],
                 !.colors = [i \in 1..Len(self.colors) |-> None]]

\* BrailleCanvas::clear
clear(self) ==
    [self EXCEPT !.buffer = [i \in 1..Len(self.buffer) |-> 0],
                 !.colors = [i \in 1..Len(self.colors) |-> None],
                 !.text_layer = [i \in 1..Len(self.text_layer) |-> None]]

\* BrailleCanvas::idx (Rust index, from 0)
idx(self, col, row) == row * self.width + col

\* get_mask with the bits numbered row by row (bit sub_y*2 + sub_x)
get_mask_row_major(sub_x, sub_y) ==
    IF sub_x \in 0..1 /\ sub_y \in 0..3 THEN Pow2(sub_y * 2 + sub_x) ELSE 0

\* BrailleCanvas::get_mask
get_mask(sub_x, sub_y) ==
    CASE sub_x = 0 /\ sub_y = 0 -> 1
      [] sub_x = 1 /\ sub_y = 0 -> 8
      [] sub_x = 0 /\ sub_y = 1 -> 2
      [] sub_x = 1 /\ sub_y = 1 -> 16
      [] sub_x = 0 /\ sub_y = 2 -> 4
      [] sub_x = 1 /\ sub_y = 2 -> 32
      [] sub_x = 0 /\ sub_y = 3 -> 64
      [] sub_x = 1 /\ sub_y = 3 -> 128
      [] OTHER -> 0

\* set_pixel_impl that stores a given colour whatever the blend mode
set_pixel_impl_overwrite(self, px, py, color) ==
    IF px >= pixel_width(self) \/ py >= pixel_height(self)
    THEN self
    ELSE LET index == idx(self, px \div 2, py \div 4) + 1
             lit == [self EXCEPT !.buffer[index] =
                         BitOr(self.buffer[index], get_mask(px % 2, py % 4))]
         IN  IF color = None THEN lit ELSE [lit EXCEPT !.colors[index] = color]

\* BrailleCanvas::set_pixel_impl
set_pixel_impl(self, px, py, color) ==
    IF px >= pixel_width(self) \/ py >= pixel_height(self)
    THEN self
    ELSE LET index == idx(self, px \div 2, py \div 4) + 1
             lit == [self EXCEPT !.buffer[index] =
                         BitOr(self.buffer[index], get_mask(px % 2, py % 4))]
         IN  IF color = None
             THEN lit
             ELSE IF self.blend_mode = "Overwrite"
                  THEN [lit EXCEPT !.colors[index] = color]
                  ELSE IF self.colors[index] = None
                       THEN [lit EXCEPT !.colors[index] = color]
                       ELSE lit

\* unset_pixel_impl that leaves the colour of an emptied cell behind
unset_pixel_impl_keep_color(self, px, py) ==
    IF px >= pixel_width(self) \/ py >= pixel_height(self)
    THEN self
    ELSE LET index == idx(self, px \div 2, py \div 4) + 1
         IN  [self EXCEPT !.buffer[index] =
                  BitAndNot(self.buffer[index], get_mask(px % 2, py % 4))]

\* BrailleCanvas::unset_pixel_impl
unset_pixel_impl(self, px, py) ==
    IF px >= pixel_width(self) \/ py >= pixel_height(self)
    THEN self
    ELSE LET index == idx(self, px \div 2, py \div 4) + 1
             m == BitAndNot(self.buffer[index], get_mask(px % 2, py % 4))
             dark == [self EXCEPT !.buffer[index] = m]
         IN  IF m = 0 THEN [dark EXCEPT !.colors[index] = None] ELSE dark

\* set_pixel that takes y for a screen row
set_pixel_not_inverted(self, x, y, color) == set_pixel_impl(self, x, y, color)

\* BrailleCanvas::set_pixel (cartesian)
set_pixel(self, x, y, color) ==
    LET inverted_y == SatSub(SatSub(pixel_height(self), 1), y)
    IN  set_pixel_impl(self, x, inverted_y, color)

\* BrailleCanvas::set_pixel_screen
set_pixel_screen(self, x, y, color) == set_pixel_impl(self, x, y, color)

\* BrailleCanvas::unset_pixel (cartesian)
unset_pixel(self, x, y) ==
    LET inverted_y == SatSub(SatSub(pixel_height(self), 1), y)
    IN  unset_pixel_impl(self, x, inverted_y)

\* BrailleCanvas::unset_pixel_screen
unset_pixel_screen(self, x, y) == unset_pixel_impl(self, x, y)

\* toggle_pixel_screen that sets the pixel whether or not it is set
toggle_pixel_screen_sets(self, x, y, color) ==
    IF x >= pixel_width(self) \/ y >= pixel_height(self)
    THEN self
    ELSE set_pixel_impl(self, x, y, color)

\* BrailleCanvas::toggle_pixel_screen
toggle_pixel_screen(self, x, y, color) ==
    IF x >= pixel_width(self) \/ y >= pixel_height(self)
    THEN self
    ELSE LET index == idx(self, x \div 2, y \div 4) + 1
             mask == get_mask(x % 2, y % 4)
         IN  IF BitAnd(self.buffer[index], mask) # 0
             THEN unset_pixel_impl(self, x, y)
             ELSE set_pixel_impl(self, x, y, color)

\* BrailleCanvas::set_char
set_char(self, col, row, c, color) ==
    LET inverted_row == SatSub(SatSub(self.height, 1), row)
    IN  IF col < self.width /\ inverted_row < self.height
        THEN LET i == idx(self, col, inverted_row) + 1
                 txt == [self EXCEPT !.text_layer[i] = Some(c)]
             IN  IF color = None THEN txt ELSE [txt EXCEPT !.colors[i] = color]
        ELSE self


---------------------------------------------------------------------------
(* Lines, rectangles and circles.  A drawing operation yields the canvas   *)
(* it leaves and how it ended: "ok", "panic" (a division by zero in the    *)
(* clip loop) or "hang" (a loop that did not end within its bound).        *)

MaxClipIter == 8   \* iterations of the clip loop followed before "hang"

\* `v as usize` of an isize: a negative v wraps to a value of at least 2^63,
\* which is past every canvas; UsizeWrapped stands for all of them
UsizeWrapped == 1073741824
AsUsize(v) == IF v < 0 THEN UsizeWrapped ELSE v

Abs(v) == IF v < 0 THEN -v ELSE v

\* isize / isize (b # 0): Rust rounds towards zero
TruncDiv(a, b) ==
    LET q == Abs(a) \div Abs(b)
    IN  IF (a < 0) = (b < 0) THEN q ELSE -q

\* compute_outcode without the BOTTOM code: a y past the last row is inside
compute_outcode_no_bottom(self, x, y) ==
    LET w == pixel_width(self)
    IN  (IF x < 0 THEN 1 ELSE IF x >= w THEN 2 ELSE 0)
            + (IF y < 0 THEN 4 ELSE 0)

\* compute_outcode without the RIGHT code: an x past the last column is
\* inside
compute_outcode_no_right(self, x, y) ==
    LET h == pixel_height(self)
    IN  (IF x < 0 THEN 1 ELSE 0)
            + (IF y < 0 THEN 4 ELSE IF y >= h THEN 8 ELSE 0)

\* BrailleCanvas::compute_outcode
compute_outcode(self, x, y) ==
    LET w == pixel_width(self)
        h == pixel_height(self)
    IN  (IF x < 0 THEN 1 ELSE IF x >= w THEN 2 ELSE 0)
            + (IF y < 0 THEN 4 ELSE IF y >= h THEN 8 ELSE 0)

\* bresenham: the Cohen-Sutherland loop, from the endpoints it has reached.
\* outcode0 and outcode1 are always the outcodes of the current endpoints.
RECURSIVE clip(_, _, _, _, _, _)
clip(self, x0, y0, x1, y1, fuel) ==
    LET w == pixel_width(self)
        h == pixel_height(self)
        outcode0 == compute_outcode(self, x0, y0)
        outcode1 == compute_outcode(self, x1, y1)
        at(status) == [status |-> status, x0 |-> x0, y0 |-> y0,
                                          x1 |-> x1, y1 |-> y1]
    IN  IF outcode0 = 0 /\ outcode1 = 0 THEN at("accept")
        ELSE IF BitAnd(outcode0, outcode1) # 0 THEN at("reject")
        ELSE IF fuel = 0 THEN at("hang")
        ELSE LET outcode_out == IF outcode0 # 0 THEN outcode0 ELSE outcode1
                 horizontal == Bit(outcode_out, 3) = 1 \/ Bit(outcode_out, 2) = 1
             IN  IF (horizontal /\ y1 = y0) \/ (~horizontal /\ x1 = x0)
                 THEN at("panic")
                 ELSE LET x == IF Bit(outcode_out, 3) = 1
                               THEN x0 + TruncDiv((x1 - x0) * (h - 1 - y0), y1 - y0)
                               ELSE IF Bit(outcode_out, 2) = 1
                               THEN x0 + TruncDiv((x1 - x0) * (0 - y0), y1 - y0)
                               ELSE IF Bit(outcode_out, 1) = 1
                               THEN w - 1
                               ELSE 0
                          y == IF Bit(outcode_out, 3) = 1
                               THEN h - 1
                               ELSE IF Bit(outcode_out, 2) = 1
                               THEN 0
                               ELSE IF Bit(outcode_out, 1) = 1
                               THEN y0 + TruncDiv((y1 - y0) * (w - 1 - x0), x1 - x0)
                               ELSE y0 + TruncDiv((y1 - y0) * (0 - x0), x1 - x0)
                      IN  IF outcode_out = outcode0
                          THEN clip(self, x, y, x1, y1, fuel - 1)
                          ELSE clip(self, x0, y0, x, y, fuel - 1)

\* v is computed, and then F of it: the statements of the source run in
\* order, one on the canvas the one before it has left
AndThen(v, F(_)) == CHOOSE r \in {F(cv) : cv \in {v}} : TRUE

\* bresenham: the stepping loop, from the point (x, y) and the error err;
\* ln holds what the loop does not change
RECURSIVE bresenham_walk(_, _, _, _, _, _)

\* the stepping loop that never steps along both axes at once
bresenham_walk_staircase(self, ln, x, y, err, fuel) ==
    AndThen(IF ln.cartesian
            THEN set_pixel(self, AsUsize(x), AsUsize(y), ln.color)
            ELSE set_pixel_screen(self, AsUsize(x), AsUsize(y), ln.color),
            LAMBDA drawn :
                IF x = ln.x1 /\ y = ln.y1 THEN [self |-> drawn, status |-> "ok"]
                ELSE IF fuel = 0 THEN [self |-> drawn, status |-> "hang"]
                ELSE LET e2 == 2 * err
                         step_x == e2 >= ln.dy
                         err_x == IF step_x THEN err + ln.dy ELSE err
                         step_y == ~step_x /\ e2 <= ln.dx
                         err_y == IF step_y THEN err_x + ln.dx ELSE err_x
                     IN  bresenham_walk(drawn, ln,
                                        IF step_x THEN x + ln.sx ELSE x,
                                        IF step_y THEN y + ln.sy ELSE y,
                                        err_y, fuel - 1))

bresenham_walk(self, ln, x, y, err, fuel) ==
    AndThen(IF ln.cartesian
            THEN set_pixel(self, AsUsize(x), AsUsize(y), ln.color)
            ELSE set_pixel_screen(self, AsUsize(x), AsUsize(y), ln.color),
            LAMBDA drawn :
                IF x = ln.x1 /\ y = ln.y1 THEN [self |-> drawn, status |-> "ok"]
                ELSE IF fuel = 0 THEN [self |-> drawn, status |-> "hang"]
                ELSE LET e2 == 2 * err
                         step_x == e2 >= ln.dy
                         err_x == IF step_x THEN err + ln.dy ELSE err
                         step_y == e2 <= ln.dx
                         err_y == IF step_y THEN err_x + ln.dx ELSE err_x
                     IN  bresenham_walk(drawn, ln,
                                        IF step_x THEN x + ln.sx ELSE x,
                                        IF step_y THEN y + ln.sy ELSE y,
                                        err_y, fuel - 1))

\* bresenham: what follows the clip loop that ended as c
bresenham_clipped(self, c, color, cartesian) ==
    IF c.status = "accept"
    THEN LET dx == Abs(c.x1 - c.x0)
             dy == -Abs(c.y1 - c.y0)
             ln == [x1 |-> c.x1, y1 |-> c.y1, dx |-> dx, dy |-> dy,
                    sx |-> IF c.x0 < c.x1 THEN 1 ELSE -1,
                    sy |-> IF c.y0 < c.y1 THEN 1 ELSE -1,
                    color |-> color, cartesian |-> cartesian]
         IN  bresenham_walk(self, ln, c.x0, c.y0, dx + dy, dx - dy + 1)
    ELSE [self |-> self,
          status |-> IF c.status = "reject" THEN "ok" ELSE c.status]

\* BrailleCanvas::bresenham
bresenham(self, x0, y0, x1, y1, color, cartesian) ==
    bresenham_clipped(self, clip(self, x0, y0, x1, y1, MaxClipIter),
                      color, cartesian)

\* BrailleCanvas::line (cartesian)
line(self, x0, y0, x1, y1, color) == bresenham(self, x0, y0, x1, y1, color, TRUE)

\* BrailleCanvas::line_screen
line_screen(self, x0, y0, x1, y1, color) ==
    bresenham(self, x0, y0, x1, y1, color, FALSE)

\* a line or line_screen call that follows a drawing call which ended as r:
\* it is made if that call returned
next_line(r, x0, y0, x1, y1, color) ==
    IF r.status = "ok" THEN line(r.self, x0, y0, x1, y1, color) ELSE r
next_line_screen(r, x0, y0, x1, y1, color) ==
    IF r.status = "ok" THEN line_screen(r.self, x0, y0, x1, y1, color) ELSE r

\* BrailleCanvas::rect
rect(self, x, y, w, h, color) ==
    next_line_screen(
        next_line_screen(
            next_line_screen(
                line_screen(self, x, y, x + w - 1, y, color),
                x + w - 1, y, x + w - 1, y + h - 1, color),
            x + w - 1, y + h - 1, x, y + h - 1, color),
        x, y + h - 1, x, y, color)

\* BrailleCanvas::rect_filled: the loop over the rows, from row cy, after
\* the drawing so far has ended as r
RECURSIVE rect_filled_from(_, _, _, _, _, _)
rect_filled_from(r, x, cy, w, max_y, color) ==
    IF r.status # "ok" \/ cy >= max_y THEN r
    ELSE rect_filled_from(line_screen(r.self, x, cy, x + w - 1, cy, color),
                          x, cy + 1, w, max_y, color)

\* BrailleCanvas::rect_filled
rect_filled(self, x, y, w, h, color) ==
    rect_filled_from([self |-> self, status |-> "ok"], x, y, w, y + h, color)

\* circle: the closure draw_octants, from the k-th of its eight points
RECURSIVE draw_octants(_, _, _, _, _, _, _)
draw_octants(self, cx, cy, x, y, color, k) ==
    LET points == << <<cx + x, cy + y>>, <<cx - x, cy + y>>,
                     <<cx + x, cy - y>>, <<cx - x, cy - y>>,
                     <<cx + y, cy + x>>, <<cx - y, cy + x>>,
                     <<cx + y, cy - x>>, <<cx - y, cy - x>> >>
    IN  IF k > 8 THEN self
        ELSE AndThen(IF points[k][1] >= 0 /\ points[k][2] >= 0
                     THEN set_pixel(self, points[k][1], points[k][2], color)
                     ELSE self,
                     LAMBDA drawn :
                         draw_octants(drawn, cx, cy, x, y, color, k + 1))

\* circle: the while loop, from the state (x, y, d)
RECURSIVE circle_loop(_, _, _, _, _, _, _)
circle_loop(self, xc, yc, x, y, d, color) ==
    IF y >= x
    THEN LET x2 == x + 1
             y2 == IF d > 0 THEN y - 1 ELSE y
             d2 == IF d > 0 THEN d + 4 * (x2 - y2) + 10 ELSE d + 4 * x2 + 6
         IN  AndThen(draw_octants(self, xc, yc, x2, y2, color, 1),
                     LAMBDA drawn :
                         circle_loop(drawn, xc, yc, x2, y2, d2, color))
    ELSE self

\* BrailleCanvas::circle
circle(self, xc, yc, r, color) ==
    [self |-> circle_loop(draw_octants(self, xc, yc, 0, r, color, 1),
                          xc, yc, 0, r, 3 - 2 * r, color),
     status |-> "ok"]

\* circle_filled: the closure draw_lines
draw_lines(self, cx, cy, x, y, color) ==
    next_line(
        next_line(
            next_line(
                line(self, cx - x, cy + y, cx + x, cy + y, color),
                cx - x, cy - y, cx + x, cy - y, color),
            cx - y, cy + x, cx + y, cy + x, color),
        cx - y, cy - x, cx + y, cy - x, color)

\* circle_filled: the while loop, from the state (x, y, d), after the
\* drawing so far has ended as r
RECURSIVE circle_filled_loop(_, _, _, _, _, _, _)
circle_filled_loop(r, xc, yc, x, y, d, color) ==
    IF r.status = "ok" /\ y >= x
    THEN LET x2 == x + 1
             y2 == IF d > 0 THEN y - 1 ELSE y
             d2 == IF d > 0 THEN d + 4 * (x2 - y2) + 10 ELSE d + 4 * x2 + 6
         IN  circle_filled_loop(draw_lines(r.self, xc, yc, x2, y2, color),
                                xc, yc, x2, y2, d2, color)
    ELSE r

\* BrailleCanvas::circle_filled
circle_filled(self, xc, yc, r, color) ==
    circle_filled_loop(draw_lines(self, xc, yc, 0, r, color),
                       xc, yc, 0, r, 3 - 2 * r, color)

---------------------------------------------------------------------------
(* Rendering.  render_to issues a sequence of writes to its sink, each     *)
(* write a string (a sequence of code points).                             *)

ESC == 27
NL == <<10>>
RESET == <<ESC, 91, 48, 109>>          \* "\x1b[0m"
SPACE == <<32>>
BLANK == 10240                          \* U+2800, the Braille base
BoxTL == <<9484>>                       \* U+250C
BoxTR == <<9488>>                       \* U+2510
BoxBL == <<9492>>                       \* U+2514
BoxBR == <<9496>>                       \* U+2518
BoxH == <<9472>>                        \* U+2500
BoxV == <<9474>>                        \* U+2502

Titles == {None, Some(<<84>>)}          \* no title, or "T"

Rep(n, x) == [i \in 1..n |-> x]

RECURSIVE Flatten(_)
Flatten(ws) == IF ws = <<>> THEN <<>> ELSE Head(ws) \o Flatten(Tail(ws))

\* BrailleCanvas::write_ansi_color
write_ansi_color(color) ==
    CASE color = "Red" -> <<ESC, 91, 51, 49, 109>>      \* "\x1b[31m"
      [] color = "Green" -> <<ESC, 91, 51, 50, 109>>    \* "\x1b[32m"

\* writeln!(w, "{:^width$}", t, width = self.width + 2)
title_writes(self, title) ==
    IF title = None THEN <<>>
    ELSE LET t == title[1]
             padding == SatSub(self.width + 2, Len(t))
         IN  Rep(padding \div 2, SPACE) \o <<t>>
                 \o Rep((padding + 1) \div 2, SPACE) \o <<NL>>

\* char_to_print that prints a space for a cell with no dot
char_to_print_space(self, i) ==
    IF self.text_layer[i + 1] # None
    THEN self.text_layer[i + 1][1]
    ELSE IF self.buffer[i + 1] = 0 THEN 32 ELSE BLANK + self.buffer[i + 1]

\* char_to_print that passes over the text layer
char_to_print_mask(self, i) == BLANK + self.buffer[i + 1]

\* the character render_to prints for the cell of Rust index i
char_to_print(self, i) ==
    IF self.text_layer[i + 1] # None
    THEN self.text_layer[i + 1][1]
    ELSE BLANK + self.buffer[i + 1]

\* render_to: the inner loop over the columns of one row, from column col
\* on, and the reset that ends the row
RECURSIVE row_writes(_, _, _, _)

\* the inner loop with a colour escape before every cell that has a colour
row_writes_every_cell(self, row, col, last_color) ==
    IF col >= self.width
    THEN IF last_color # None THEN <<RESET>> ELSE <<>>
    ELSE LET i == idx(self, col, row)
             current_color == self.colors[i + 1]
             esc == IF current_color # None
                    THEN <<write_ansi_color(current_color[1])>>
                    ELSE IF last_color # None THEN <<RESET>> ELSE <<>>
         IN  esc \o << <<char_to_print(self, i)>> >>
                 \o row_writes(self, row, col + 1, current_color)

\* the inner loop without the reset that ends a row
row_writes_no_final_reset(self, row, col, last_color) ==
    IF col >= self.width
    THEN <<>>
    ELSE LET i == idx(self, col, row)
             current_color == self.colors[i + 1]
             esc == IF current_color # last_color
                    THEN IF current_color # None
                         THEN <<write_ansi_color(current_color[1])>>
                         ELSE <<RESET>>
                    ELSE <<>>
         IN  esc \o << <<char_to_print(self, i)>> >>
                 \o row_writes(self, row, col + 1, current_color)

\* the inner loop with a reset before every change from one colour to
\* another
row_writes_reset_first(self, row, col, last_color) ==
    IF col >= self.width
    THEN IF last_color # None THEN <<RESET>> ELSE <<>>
    ELSE LET i == idx(self, col, row)
             current_color == self.colors[i + 1]
             esc == IF current_color # last_color
                    THEN (IF last_color # None THEN <<RESET>> ELSE <<>>)
                         \o (IF current_color # None
                             THEN <<write_ansi_color(current_color[1])>>
                             ELSE <<>>)
                    ELSE <<>>
         IN  esc \o << <<char_to_print(self, i)>> >>
                 \o row_writes(self, row, col + 1, current_color)

row_writes(self, row, col, last_color) ==
    IF col >= self.width
    THEN IF last_color # None THEN <<RESET>> ELSE <<>>
    ELSE LET i == idx(self, col, row)
             current_color == self.colors[i + 1]
             esc == IF current_color # last_color
                    THEN IF current_color # None
                         THEN <<write_ansi_color(current_color[1])>>
                         ELSE <<RESET>>
                    ELSE <<>>
         IN  esc \o << <<char_to_print(self, i)>> >>
                 \o row_writes(self, row, col + 1, current_color)

\* render_to: last_color when the inner loop of a row is left
row_last(self, row, last_color) ==
    IF self.width = 0 THEN last_color
    ELSE self.colors[idx(self, self.width - 1, row) + 1]

\* render_to: the loop over the rows, from row on
RECURSIVE rows_writes(_, _, _, _)
rows_writes(self, show_border, row, last_color) ==
    IF row >= self.height THEN <<>>
    ELSE LET after == row_last(self, row, last_color)
             next_last == IF after # None THEN None ELSE after
         IN  (IF show_border THEN <<BoxV>> ELSE <<>>)
                 \o row_writes(self, row, 0, last_color)
                 \o (IF show_border THEN <<BoxV>> ELSE <<>>)
                 \o <<NL>>
                 \o rows_writes(self, show_border, row + 1, next_last)

\* render_to: the writes it issues, in order, while none is rejected
render_to_writes(self, show_border, title) ==
    title_writes(self, title)
        \o (IF show_border
            THEN <<BoxTL>> \o Rep(self.width, BoxH) \o <<BoxTR>> \o <<NL>>
            ELSE <<>>)
        \o rows_writes(self, show_border, 0, None)
        \o (IF show_border
            THEN <<BoxBL>> \o Rep(self.width, BoxH) \o <<BoxBR>>
            ELSE <<>>)

\* a sink (W: fmt::Write): what it holds, and, when it is limited, the
\* number of writes it accepts before it rejects one; a String is not limited
StringSink(held) == [held |-> held, limited |-> FALSE, accepts |-> 0]
LimitedSink(held, n) == [held |-> held, limited |-> TRUE, accepts |-> n]

\* the writes ws with every `?` dropped: a rejected write is passed over
write_all_unchecked(w, ws, issued) ==
    [w |-> [w EXCEPT !.held = @ \o Flatten(IF w.limited
                                          THEN SubSeq(ws, 1, w.accepts)
                                          ELSE ws),
                     !.accepts = SatSub(w.accepts, Len(ws))],
     result |-> "Ok",
     issued |-> issued + Len(ws)]

\* render_to: the writes ws, each followed by `?`, issued to the sink w
\* after `issued` writes; yields the sink, the fmt::Result and the number
\* of writes issued
RECURSIVE write_all(_, _, _)
write_all(w, ws, issued) ==
    IF ws = <<>> THEN [w |-> w, result |-> "Ok", issued |-> issued]
    ELSE IF w.limited /\ w.accepts = 0
    THEN [w |-> w, result |-> "Err", issued |-> issued + 1]
    ELSE write_all([w EXCEPT !.held = @ \o Head(ws),
                             !.accepts = IF w.limited THEN @ - 1 ELSE @],
                   Tail(ws), issued + 1)

\* BrailleCanvas::render_to
render_to(self, w, show_border, title) ==
    write_all(w, render_to_writes(self, show_border, title), 0)

\* BrailleCanvas::render_with_options
render_with_options(self, show_border, title) ==
    render_to(self, StringSink(<<>>), show_border, title).w.held

\* render without the border
render_unframed(self) == render_with_options(self, FALSE, None)

\* BrailleCanvas::render
render(self) == render_with_options(self, TRUE, None)

\* BrailleCanvas::render_no_color
render_no_color(self) ==
    LET glyphs(row) == [c \in 1..self.width |->
                            BLANK + self.buffer[idx(self, c - 1, row) + 1]] \o NL
    IN  Flatten([r \in 1..self.height |-> glyphs(r - 1)])

---------------------------------------------------------------------------
(* The caller.  It constructs a canvas and then makes public calls on it,  *)
(* one action per operation.  A call is [op, args]; between two calls the  *)
(* caller is idle.  While call is not idle the state shows what the call   *)
(* did: prev is the canvas it was made on, the canvas variables what it    *)
(* left, ret what it returned.                                             *)

Idle == [op |-> "idle", args |-> <<>>]

RenderOps == {"render", "render_with_options", "render_no_color", "render_to"}

ShapeOps == {"line", "line_screen", "rect", "rect_filled", "circle",
             "circle_filled"}

\* a call of a unit function that leaves the canvas cv
Unit(cv) == [self |-> cv, ret |-> <<>>]

\* a drawing call that ended as r = [self, status] says
Drawn(r) == [self |-> r.self,
             ret |-> IF r.status = "ok" THEN <<>> ELSE <<r.status>>]

\* a &self call that clears the canvas once it has computed out
ReadsAndClears(self, out) == [self |-> clear(self), ret |-> out]

\* a call of a fn(&self, ..) that returns out: it cannot change the canvas
Reads(self, out) == [self |-> self, ret |-> out]

\* the call c made on the canvas self: the canvas it leaves and what it
\* returns.  The &mut self operations change the canvas and return (), or do
\* not return (<<"panic">>, <<"hang">>); the &self operations (the renders)
\* cannot change it; render_to returns the sink, its fmt::Result and the
\* number of writes it issued.
Exec(self, c) ==
    CASE c.op = "set_pixel" ->
             Unit(set_pixel(self, c.args[1], c.args[2], c.args[3]))
      [] c.op = "set_pixel_screen" ->
             Unit(set_pixel_screen(self, c.args[1], c.args[2], c.args[3]))
      [] c.op = "unset_pixel" -> Unit(unset_pixel(self, c.args[1], c.args[2]))
      [] c.op = "unset_pixel_screen" ->
             Unit(unset_pixel_screen(self, c.args[1], c.args[2]))
      [] c.op = "toggle_pixel_screen" ->
             Unit(toggle_pixel_screen(self, c.args[1], c.args[2], c.args[3]))
      [] c.op = "set_char" ->
             Unit(set_char(self, c.args[1], c.args[2], c.args[3], c.args[4]))
      [] c.op = "clear" -> Unit(clear(self))
      [] c.op = "blend_mode" -> Unit([self EXCEPT !.blend_mode = c.args[1]])
      [] c.op = "line" ->
             Drawn(line(self, c.args[1], c.args[2], c.args[3], c.args[4],
                        c.args[5]))
      [] c.op = "line_screen" ->
             Drawn(line_screen(self, c.args[1], c.args[2], c.args[3],
                               c.args[4], c.args[5]))
      [] c.op = "rect" ->
             Drawn(rect(self, c.args[1], c.args[2], c.args[3], c.args[4],
                        c.args[5]))
      [] c.op = "rect_filled" ->
             Drawn(rect_filled(self, c.args[1], c.args[2], c.args[3],
                               c.args[4], c.args[5]))
      [] c.op = "circle" ->
             Drawn(circle(self, c.args[1], c.args[2], c.args[3], c.args[4]))
      [] c.op = "circle_filled" ->
             Drawn(circle_filled(self, c.args[1], c.args[2], c.args[3],
                                 c.args[4]))
      [] c.op = "render" -> Reads(self, render(self))
      [] c.op = "render_with_options" ->
             Reads(self, render_with_options(self, c.args[1], c.args[2]))
      [] c.op = "render_no_color" -> Reads(self, render_no_color(self))
      [] c.op = "render_to" ->
             Reads(self, render_to(self, c.args[3], c.args[1], c.args[2]))

\* the longest sequence of calls a caller of any operation makes: one call
\* fewer for each further cell of the canvas, whose calls have more arguments
\* to choose from
OpsBound == IF width * height <= 1 THEN MaxOps ELSE MaxOps + 1 - width * height

\* the call c, made on the canvas as it is, ends as done
Ends(c, done) ==
    /\ ops' = ops + 1
    /\ call' = c
    /\ prev' = Self
    /\ width' = done.self.width
    /\ height' = done.self.height
    /\ blend_mode' = done.self.blend_mode
    /\ buffer' = done.self.buffer
    /\ colors' = done.self.colors
    /\ text_layer' = done.self.text_layer
    /\ ret' = done.ret
    /\ made' = made
    /\ budget' = budget
    /\ reach' = reach

\* the caller is idle and may make a further call
Ready == call = Idle /\ ops < budget

\* the caller makes the call op(args), which ends as outcome
Do(op, args, outcome) ==
    /\ first' = <<>>
    /\ \E done \in {outcome} : Ends([op |-> op, args |-> args], done)

PixXs == 0..(pixel_width(Self) + Over - 1)
PixYs == 0..(pixel_height(Self) + Over - 1)
Cols == 0..(width + Over - 1)
Rows == 0..(height + Over - 1)

\* the state once BrailleCanvas::new(w, h) has returned
Created(w, h) ==
    /\ width = New(w, h).width
    /\ height = New(w, h).height
    /\ blend_mode = New(w, h).blend_mode
    /\ buffer = New(w, h).buffer
    /\ colors = New(w, h).colors
    /\ text_layer = New(w, h).text_layer
    /\ made = <<w, h>>
    /\ prev = New(w, h)
    /\ call = [op |-> "new", args |-> <<w, h>>]
    /\ ret = <<>>
    /\ first = <<>>
    /\ ops = 0

Init ==
    \E w \in 0..MaxW, h \in 0..MaxH :
        /\ w * h <= MaxCells
        /\ Created(w, h)
        /\ budget = OpsBound
        /\ reach = LineOver

SetPixel ==
    /\ Ready
    /\ \E x \in PixXs, y \in PixYs, c \in OptColors :
           Do("set_pixel", <<x, y, c>>, Unit(set_pixel(Self, x, y, c)))

SetPixelScreen ==
    /\ Ready
    /\ \E x \in PixXs, y \in PixYs, c \in OptColors :
        Do("set_pixel_screen", <<x, y, c>>,
           Unit(set_pixel_screen(Self, x, y, c)))

UnsetPixel ==
    /\ Ready
    /\ \E x \in PixXs, y \in PixYs :
        Do("unset_pixel", <<x, y>>, Unit(unset_pixel(Self, x, y)))

UnsetPixelScreen ==
    /\ Ready
    /\ \E x \in PixXs, y \in PixYs :
        Do("unset_pixel_screen", <<x, y>>, Unit(unset_pixel_screen(Self, x, y)))

TogglePixelScreen ==
    /\ Ready
    /\ \E x \in PixXs, y \in PixYs, c \in OptColors :
        Do("toggle_pixel_screen", <<x, y, c>>,
           Unit(toggle_pixel_screen(Self, x, y, c)))

SetChar ==
    /\ Ready
    /\ \E col \in Cols, row \in Rows, ch \in Chars, c \in OptColors :
        Do("set_char", <<col, row, ch, c>>,
           Unit(set_char(Self, col, row, ch, c)))

Clear == Ready /\ Do("clear", <<>>, Unit(clear(Self)))

\* the caller assigns the public field blend_mode
SetBlendMode ==
    /\ Ready
    /\ \E m \in BlendModes :
        Do("blend_mode", <<m>>, Unit([Self EXCEPT !.blend_mode = m]))

Render == Ready /\ Do("render", <<>>, Reads(Self, render(Self)))

RenderWithOptions ==
    /\ Ready
    /\ \E b \in BOOLEAN, t \in Titles : Do("render_with_options", <<b, t>>,
              Reads(Self, render_with_options(Self, b, t)))

RenderNoColor ==
    Ready /\ Do("render_no_color", <<>>, Reads(Self, render_no_color(Self)))

\* the sinks the caller passes to render_to: a String, empty or not, and
\* sinks that reject a write after accepting up to MaxAccepts writes
Sinks ==
    {StringSink(<<>>), StringSink(<<62>>)}
        \cup {LimitedSink(<<>>, n) : n \in 0..MaxAccepts}

RenderTo ==
    /\ Ready
    /\ \E b \in BOOLEAN, t \in Titles, w \in Sinks :
        Do("render_to", <<b, t, w>>, Reads(Self, render_to(Self, w, b, t)))

\* a canvas without a dot
DotFree == \A i \in 1..Len(buffer) : buffer[i] = 0

\* the dots of the canvas: the bits set in the masks
Dots ==
    {d \in (1..Len(buffer)) \X (0..7) : BitAnd(buffer[d[1]], Pow2(d[2])) # 0}

\* the caller is idle and may make a drawing call: the canvas holds no dot,
\* or one dot at most when the caller keeps its endpoints on the canvas
ReadyToDraw == Ready /\ (DotFree \/ (reach = 0 /\ Cardinality(Dots) <= 1))

LineXs == (0 - reach)..(pixel_width(Self) + reach - 1)
LineYs == (0 - reach)..(pixel_height(Self) + reach - 1)
RectWs == 0..(pixel_width(Self) + 1)
RectHs == 0..(pixel_height(Self) + 1)
Radii == (0 - 1)..MaxRadius

Line ==
    /\ ReadyToDraw
    /\ \E x0 \in LineXs, y0 \in LineYs, x1 \in LineXs, y1 \in LineYs,
       c \in OptColors :
        Do("line", <<x0, y0, x1, y1, c>>, Drawn(line(Self, x0, y0, x1, y1, c)))

LineScreen ==
    /\ ReadyToDraw
    /\ \E x0 \in LineXs, y0 \in LineYs, x1 \in LineXs, y1 \in LineYs,
       c \in OptColors :
        Do("line_screen", <<x0, y0, x1, y1, c>>,
           Drawn(line_screen(Self, x0, y0, x1, y1, c)))

Rect ==
    /\ ReadyToDraw
    /\ \E x \in LineXs, y \in LineYs, w \in RectWs, h \in RectHs, c \in OptColors :
        Do("rect", <<x, y, w, h, c>>, Drawn(rect(Self, x, y, w, h, c)))

RectFilled ==
    /\ ReadyToDraw
    /\ \E x \in LineXs, y \in LineYs, w \in RectWs, h \in RectHs, c \in OptColors :
        Do("rect_filled", <<x, y, w, h, c>>,
           Drawn(rect_filled(Self, x, y, w, h, c)))

Circle ==
    /\ ReadyToDraw
    /\ \E xc \in LineXs, yc \in LineYs, r \in Radii, c \in OptColors :
        Do("circle", <<xc, yc, r, c>>, Drawn(circle(Self, xc, yc, r, c)))

CircleFilled ==
    /\ ReadyToDraw
    /\ \E xc \in LineXs, yc \in LineYs, r \in Radii, c \in OptColors :
        Do("circle_filled", <<xc, yc, r, c>>,
           Drawn(circle_filled(Self, xc, yc, r, c)))

\* the caller makes the call it has just made once more, with the same
\* arguments, whatever the number of calls before; first keeps what the
\* first of the two calls was made on and what it returned
Repeat ==
    /\ call.op \notin {"idle", "new"}
    /\ first = <<>>
    /\ first' = <<[prev |-> prev, ret |-> ret]>>
    /\ \E done \in {Exec(Self, call)} : Ends(call, done)

\* the caller is done with the call and its result
Return ==
    /\ call # Idle
    /\ call' = Idle
    /\ prev' = Self
    /\ ret' = <<>>
    /\ first' = <<>>
    /\ UNCHANGED <<canvas, made, ops, budget, reach>>

Next ==
    \/ SetPixel
    \/ SetPixelScreen
    \/ UnsetPixel
    \/ UnsetPixelScreen
    \/ TogglePixelScreen
    \/ SetChar
    \/ Clear
    \/ SetBlendMode
    \/ Render
    \/ RenderWithOptions
    \/ RenderNoColor
    \/ RenderTo
    \/ Repeat
    \/ Return

Spec == Init /\ [][Next]_vars

\* the caller writes text, chooses a blend mode and draws lines
NextLine ==
    \/ SetChar
    \/ SetBlendMode
    \/ Line
    \/ LineScreen
    \/ Return

SpecLine == Init /\ [][NextLine]_vars

\* the caller uses every operation of the canvas
NextAll ==
    \/ SetPixel
    \/ SetPixelScreen
    \/ UnsetPixel
    \/ UnsetPixelScreen
    \/ TogglePixelScreen
    \/ SetChar
    \/ Clear
    \/ SetBlendMode
    \/ Render
    \/ RenderWithOptions
    \/ RenderNoColor
    \/ RenderTo
    \/ Return
    \/ Line
    \/ LineScreen
    \/ Rect
    \/ RectFilled
    \/ Circle
    \/ CircleFilled

SpecAll == Init /\ [][NextAll]_vars

\* a caller that makes MaxOps calls on every canvas: it sets dots and text
\* and renders
InitRender ==
    \E w \in 0..MaxW, h \in 0..MaxH :
        /\ w * h <= MaxCells
        /\ Created(w, h)
        /\ budget = MaxOps
        /\ reach = LineOver

NextRender ==
    \/ SetPixel
    \/ SetChar
    \/ Render
    \/ RenderWithOptions
    \/ RenderTo
    \/ Return

SpecRender == InitRender /\ [][NextRender]_vars

\* a caller that draws one circle, on a canvas that can hold one
InitCircle ==
    \E w \in 0..MaxCircleW, h \in 0..MaxCircleH :
        /\ Created(w, h)
        /\ budget = 1
        /\ reach = LineOver

NextCircle ==
    \/ Circle
    \/ CircleFilled
    \/ Return

SpecCircle == InitCircle /\ [][NextCircle]_vars

\* a caller that draws one line, whose endpoints may lie far off the canvas
InitFar ==
    \E w \in 0..MaxW, h \in 0..MaxH :
        /\ w * h <= MaxCells
        /\ Created(w, h)
        /\ budget = 1
        /\ reach = FarOver

NextFar ==
    \/ Line
    \/ LineScreen
    \/ Return

SpecFar == InitFar /\ [][NextFar]_vars

\* a caller that makes two calls, among them lines between points of the
\* canvas, drawn over a text or a dot
InitInside ==
    \E w \in 0..MaxW, h \in 0..MaxH :
        /\ w * h <= MaxCells
        /\ Created(w, h)
        /\ budget = 2
        /\ reach = 0

NextInside ==
    \/ SetPixel
    \/ SetChar
    \/ Line
    \/ LineScreen
    \/ Return

SpecInside == InitInside /\ [][NextInside]_vars


---------------------------------------------------------------------------
(* ChartContext::get_auto_range.  An f64 is kept exactly: a finite value   *)
(* is u/10 + (t/10) ticks, where a tick is half of 1e-9 and t stays far    *)
(* below one tenth, so that finite values are ordered by u and then by t;  *)
(* NaN and the two infinities are values of their own.                     *)

MaxPts == 2   \* the longest slice of points passed to get_auto_range

F(u, t) == [kind |-> "finite", u |-> u, t |-> t]
NAN == [kind |-> "nan", u |-> 0, t |-> 0]
INFINITY == [kind |-> "inf", u |-> 0, t |-> 0]
NEG_INFINITY == [kind |-> "-inf", u |-> 0, t |-> 0]
ZERO == F(0, 0)
ONE == F(10, 0)
EPS == F(0, 20)   \* 1e-9

\* f64::is_finite
is_finite(v) == v.kind = "finite"

\* a < b on f64: false when either is NaN
Lt(a, b) ==
    LET rank(v) == IF v.kind = "-inf" THEN 0 ELSE IF v.kind = "inf" THEN 2 ELSE 1
    IN  /\ a.kind # "nan" /\ b.kind # "nan"
        /\ \/ rank(a) < rank(b)
           \/ /\ is_finite(a) /\ is_finite(b)
              /\ a.u < b.u \/ (a.u = b.u /\ a.t < b.t)

\* f64::min and f64::max: a NaN operand yields the other operand
fmin(a, b) ==
    IF a.kind = "nan" THEN b ELSE IF b.kind = "nan" THEN a
    ELSE IF Lt(b, a) THEN b ELSE a
fmax(a, b) ==
    IF a.kind = "nan" THEN b ELSE IF b.kind = "nan" THEN a
    ELSE IF Lt(a, b) THEN b ELSE a

\* a - b, a + b, a * b and a.abs() of finite values; in a product one
\* factor is free of ticks
fsub(a, b) == F(a.u - b.u, a.t - b.t)
fadd(a, b) == F(a.u + b.u, a.t + b.t)
fmul(a, b) == F((a.u * b.u) \div 10, (a.u * b.t + a.t * b.u) \div 10)
fabs(a) == IF Lt(a, ZERO) THEN F(-a.u, -a.t) ELSE a

\* get_auto_range: the filter closure
is_valid_point(p) == is_finite(p[1]) /\ is_finite(p[2])

\* get_auto_range: the fold over the first n valid points, on the x axis
\* (axis = 1) or the y axis (axis = 2); yields (min, max)
RECURSIVE fold_min_max(_, _, _)
fold_min_max(valid_points, axis, n) ==
    IF n = 0 THEN <<INFINITY, NEG_INFINITY>>
    ELSE LET acc == fold_min_max(valid_points, axis, n - 1)
         IN  <<fmin(acc[1], valid_points[n][axis]),
               fmax(acc[2], valid_points[n][axis])>>

\* the span of an axis without the substitution for a degenerate span
axis_span_raw(min, max) == fsub(max, min)

\* get_auto_range: rx and ry
axis_span(min, max) ==
    IF Lt(fabs(fsub(max, min)), EPS) THEN ONE ELSE fsub(max, min)

\* ChartContext::get_auto_range
get_auto_range(points, padding) ==
    LET valid_points == SelectSeq(points, is_valid_point)
        x == fold_min_max(valid_points, 1, Len(valid_points))
        y == fold_min_max(valid_points, 2, Len(valid_points))
        rx == axis_span(x[1], x[2])
        ry == axis_span(y[1], y[2])
    IN  IF valid_points = <<>> THEN <<<<ZERO, ONE>>, <<ZERO, ONE>>>>
        ELSE <<<<fsub(x[1], fmul(rx, padding)), fadd(x[2], fmul(rx, padding))>>,
               <<fsub(y[1], fmul(ry, padding)), fadd(y[2], fmul(ry, padding))>>>>

\* the coordinates and the paddings the caller passes: 0, one tick (half of
\* 1e-9), 1e-9, 10, 20, NaN and infinity; 0, 0.1 and 0.5
Floats == {ZERO, F(0, 10), EPS, F(100, 0), F(200, 0), NAN, INFINITY}
Paddings == {ZERO, F(1, 0), F(5, 0)}

\* the caller calls the associated function get_auto_range, which has no
\* canvas to act on
GetAutoRange ==
    /\ Ready
    /\ \E n \in 0..MaxPts :
           \E points \in [1..n -> Floats \X Floats], padding \in Paddings :
               /\ call' = [op |-> "get_auto_range", args |-> <<points, padding>>]
               /\ ret' = get_auto_range(points, padding)
    /\ prev' = Self
    /\ first' = <<>>
    /\ ops' = ops + 1
    /\ UNCHANGED <<canvas, made, budget, reach>>

\* a ChartContext of one cell, whose caller computes ranges
InitRange == Init /\ made = <<1, 1>>

NextRange ==
    \/ GetAutoRange
    \/ Return

SpecRange == InitRange /\ [][NextRange]_vars

\* bar_chart: max_val, the fold of f64::max from 0.0 over the finite ones of
\* the first n values
RECURSIVE fold_max(_, _)
fold_max(values, n) ==
    IF n = 0 THEN ZERO
    ELSE IF is_finite(values[n][1])
    THEN fmax(fold_max(values, n - 1), values[n][1])
    ELSE fold_max(values, n - 1)

\* (val / max_val * (h_px as f64)).round() for finite 0 < val <= max_val.
\* The quotient is that of the tenths, or of the ticks when max_val is
\* below 0.1; the ticks of a larger value are too small to move the
\* rounding, and a val below 0.1 of a max_val of 0.1 or more rounds to 0.
\* f64::round rounds half away from zero.
normalized_h(val, max_val, h_px) ==
    LET num == IF max_val.u = 0 THEN val.t ELSE val.u
        den == IF max_val.u = 0 THEN max_val.t ELSE max_val.u
    IN  (2 * num * h_px + den) \div (2 * den)

\* bar_chart: the loop `for x in x_start..x_end`, from x on, after the
\* drawing so far has ended as r
RECURSIVE bar_columns(_, _, _, _, _)
bar_columns(r, x, x_end, bar_height, color) ==
    IF x >= x_end THEN r
    ELSE bar_columns(next_line(r, x, 0, x, bar_height, color),
                     x + 1, x_end, bar_height, color)

\* the bar loop without the test that skips a value that is not finite or
\* not positive: such a value is drawn as a bar of height 0
RECURSIVE bar_loop(_, _, _, _)
bar_loop_no_skip(r, values, max_val, i) ==
    IF i >= Len(values) \/ r.status # "ok" THEN r
    ELSE LET val == values[i + 1][1]
             w_px == pixel_width(r.self)
             h_px == pixel_height(r.self)
             bar_width == IF w_px \div Len(values) >= 1
                          THEN w_px \div Len(values) ELSE 1
             h == IF ~is_finite(val) \/ ~Lt(ZERO, val) THEN 0
                  ELSE normalized_h(val, max_val, h_px)
             bar_height == IF h <= h_px THEN h ELSE h_px
             x_start == i * bar_width
             x_end == IF x_start + bar_width <= w_px
                      THEN x_start + bar_width ELSE w_px
         IN  IF x_start >= w_px THEN r
             ELSE bar_loop(bar_columns(r, x_start, x_end, bar_height,
                                       values[i + 1][2]),
                           values, max_val, i + 1)

\* bar_chart: the loop over the values, from index i on, after the drawing
\* so far has ended as r
bar_loop(r, values, max_val, i) ==
    IF i >= Len(values) \/ r.status # "ok" THEN r
    ELSE LET val == values[i + 1][1]
             w_px == pixel_width(r.self)
             h_px == pixel_height(r.self)
             bar_width == IF w_px \div Len(values) >= 1
                          THEN w_px \div Len(values) ELSE 1
         IN  IF ~is_finite(val) \/ ~Lt(ZERO, val)
             THEN bar_loop(r, values, max_val, i + 1)
             ELSE LET h == normalized_h(val, max_val, h_px)
                      bar_height == IF h <= h_px THEN h ELSE h_px
                      x_start == i * bar_width
                      x_end == IF x_start + bar_width <= w_px
                               THEN x_start + bar_width ELSE w_px
                  IN  IF x_start >= w_px THEN r
                      ELSE bar_loop(bar_columns(r, x_start, x_end, bar_height,
                                                values[i + 1][2]),
                                    values, max_val, i + 1)

\* ChartContext::bar_chart, on the canvas of the context
bar_chart(self, values) ==
    LET max_val == fold_max(values, Len(values))
    IN  IF values = <<>> \/ ~Lt(EPS, max_val)
        THEN [self |-> self, status |-> "ok"]
        ELSE bar_loop([self |-> self, status |-> "ok"], values, max_val, 0)

\* the values the caller charts: 0, -1, 1e-9, 1.5e-9, 1, 2, 3, NaN and
\* infinity, without a colour or in red
BarValues == {ZERO, F(-10, 0), EPS, F(0, 30), F(10, 0), F(20, 0), F(30, 0),
              NAN, INFINITY}
BarColors == {None, Some("Red")}

BarChart ==
    /\ Ready
    /\ \E n \in 0..MaxBars :
           \E values \in [1..n -> BarValues \X BarColors] :
               Do("bar_chart", <<values>>, Drawn(bar_chart(Self, values)))

\* a ChartContext whose caller draws one chart
InitChart ==
    \E w \in 0..MaxW, h \in 0..MaxH :
        /\ w * h <= MaxCells
        /\ Created(w, h)
        /\ budget = 1
        /\ reach = LineOver

NextChart ==
    \/ BarChart
    \/ Return

SpecChart == InitChart /\ [][NextChart]_vars

---------------------------------------------------------------------------
(* The chart primitives that map points.  They call get_auto_range with    *)
(* the padding 0.05, which the records of F do not hold for a span of 1.0; *)
(* here a finite f64 is counted in two-hundredths, Q(n) = n / 200, so that *)
(* a twentieth of a span of whole numbers is exact.  The points the caller *)
(* passes keep every product of map_coords away from a half, where the     *)
(* rounding of the f64 operations could decide which way .round() goes,    *)
(* but for an axis with a single value: its quotient is 0.5 in f64 too,    *)
(* the padded ends being equally far from the value.                       *)

Q(n) == [kind |-> "finite", q |-> n]
QNAN == [kind |-> "nan", q |-> 0]
QINFINITY == [kind |-> "inf", q |-> 0]

\* get_auto_range: the fold over the first n valid points, on one axis
RECURSIVE q_fold_min_max(_, _, _)
q_fold_min_max(valid_points, axis, n) ==
    IF n = 1 THEN <<valid_points[1][axis].q, valid_points[1][axis].q>>
    ELSE LET acc == q_fold_min_max(valid_points, axis, n - 1)
             v == valid_points[n][axis].q
         IN  <<IF v < acc[1] THEN v ELSE acc[1],
               IF v > acc[2] THEN v ELSE acc[2]>>

\* get_auto_range(points, 0.05): a span below 1e-9 is 0 two-hundredths
q_auto_range(points) ==
    LET valid_points == SelectSeq(points, is_valid_point)
        x == q_fold_min_max(valid_points, 1, Len(valid_points))
        y == q_fold_min_max(valid_points, 2, Len(valid_points))
        rx == IF x[2] - x[1] = 0 THEN 200 ELSE x[2] - x[1]
        ry == IF y[2] - y[1] = 0 THEN 200 ELSE y[2] - y[1]
    IN  IF valid_points = <<>> THEN <<<<0, 200>>, <<0, 200>>>>
        ELSE <<<<x[1] - rx \div 20, x[2] + rx \div 20>>,
               <<y[1] - ry \div 20, y[2] + ry \div 20>>>>

\* (a / b * n).round() as isize, for b > 0: f64::round rounds half away
\* from zero
RoundRatio(a, b, n) ==
    IF a * n >= 0 THEN (2 * a * n + b) \div (2 * b)
    ELSE 0 - ((2 * (0 - a * n) + b) \div (2 * b))

\* map_coords without the offset of the range: the point is mapped as if
\* the range began at 0
map_coords_from_zero(self, x, y, x_range, y_range) ==
    <<RoundRatio(x.q, x_range[2] - x_range[1], pixel_width(self) - 1),
      RoundRatio(y.q, y_range[2] - y_range[1], pixel_height(self) - 1)>>

\* ChartContext::map_coords; a range of less than 1e-9 counts 1e-9, which
\* no range of get_auto_range is
map_coords(self, x, y, x_range, y_range) ==
    <<RoundRatio(x.q - x_range[1], x_range[2] - x_range[1],
                 pixel_width(self) - 1),
      RoundRatio(y.q - y_range[1], y_range[2] - y_range[1],
                 pixel_height(self) - 1)>>

\* scatter: the loop over the points, from the i-th on
RECURSIVE scatter_loop(_, _, _, _, _)
scatter_loop(self, points, ranges, color, i) ==
    IF i > Len(points) THEN self
    ELSE IF ~is_finite(points[i][1]) \/ ~is_finite(points[i][2])
    THEN scatter_loop(self, points, ranges, color, i + 1)
    ELSE LET p == map_coords(self, points[i][1], points[i][2],
                             ranges[1], ranges[2])
         IN  scatter_loop(IF /\ p[1] >= 0 /\ p[2] >= 0
                             /\ p[1] < pixel_width(self)
                             /\ p[2] < pixel_height(self)
                          THEN set_pixel(self, p[1], p[2], color)
                          ELSE self,
                          points, ranges, color, i + 1)

\* ChartContext::scatter
scatter(self, points, color) ==
    [self |-> IF points = <<>> THEN self
              ELSE scatter_loop(self, points, q_auto_range(points), color, 1),
     status |-> "ok"]

\* line_chart and polygon: the segment from the point a to the point b,
\* after the drawing so far has ended as r
segment(r, a, b, ranges, color) ==
    IF ~is_finite(a[1]) \/ ~is_finite(a[2])
           \/ ~is_finite(b[1]) \/ ~is_finite(b[2])
    THEN r
    ELSE LET p0 == map_coords(r.self, a[1], a[2], ranges[1], ranges[2])
             p1 == map_coords(r.self, b[1], b[2], ranges[1], ranges[2])
         IN  next_line(r, p0[1], p0[2], p1[1], p1[2], color)

\* line_chart: the loop over points.windows(2), from the i-th window on
RECURSIVE line_chart_loop(_, _, _, _, _)
line_chart_loop(r, points, ranges, color, i) ==
    IF i >= Len(points) \/ r.status # "ok" THEN r
    ELSE line_chart_loop(segment(r, points[i], points[i + 1], ranges, color),
                         points, ranges, color, i + 1)

\* ChartContext::line_chart
line_chart(self, points, color) ==
    IF Len(points) < 2 THEN [self |-> self, status |-> "ok"]
    ELSE line_chart_loop([self |-> self, status |-> "ok"], points,
                         q_auto_range(points), color, 1)

\* polygon: the loop over the vertices, from index i on
RECURSIVE polygon_loop(_, _, _, _, _)
polygon_loop(r, vertices, ranges, color, i) ==
    IF i >= Len(vertices) \/ r.status # "ok" THEN r
    ELSE polygon_loop(segment(r, vertices[i + 1],
                              vertices[((i + 1) % Len(vertices)) + 1],
                              ranges, color),
                      vertices, ranges, color, i + 1)

\* ChartContext::polygon
polygon(self, vertices, color) ==
    IF Len(vertices) < 2 THEN [self |-> self, status |-> "ok"]
    ELSE polygon_loop([self |-> self, status |-> "ok"], vertices,
                      q_auto_range(vertices), color, 0)

\* the coordinates the caller passes: 0, 1, 3, NaN and infinity
ChartCoords == {Q(0), Q(200), Q(600), QNAN, QINFINITY}

Scatter ==
    /\ Ready
    /\ \E n \in 0..MaxChartPts :
           \E points \in [1..n -> ChartCoords \X ChartCoords],
              c \in BarColors :
               Do("scatter", <<points, c>>, Drawn(scatter(Self, points, c)))

LineChart ==
    /\ Ready
    /\ \E n \in 0..MaxChartPts :
           \E points \in [1..n -> ChartCoords \X ChartCoords],
              c \in BarColors :
               Do("line_chart", <<points, c>>,
                  Drawn(line_chart(Self, points, c)))

Polygon ==
    /\ Ready
    /\ \E n \in 0..MaxChartPts :
           \E vertices \in [1..n -> ChartCoords \X ChartCoords],
              c \in BarColors :
               Do("polygon", <<vertices, c>>,
                  Drawn(polygon(Self, vertices, c)))

\* a ChartContext whose caller draws one chart of points
NextPoints ==
    \/ Scatter
    \/ LineChart
    \/ Polygon
    \/ Return

SpecPoints == InitChart /\ [][NextPoints]_vars

---------------------------------------------------------------------------
(* The properties.  They speak of the last call (call), the canvas it was  *)
(* made on (prev), the canvas it left (the variables) and what it returned *)
(* (ret).                                                                  *)

\* the dot of a cell at sub-position (sx, sy), as the Braille patterns
\* number them
DocBit(sx, sy) ==
    CASE sx = 0 /\ sy = 0 -> 1   [] sx = 0 /\ sy = 1 -> 2
      [] sx = 0 /\ sy = 2 -> 4   [] sx = 0 /\ sy = 3 -> 64
      [] sx = 1 /\ sy = 0 -> 8   [] sx = 1 /\ sy = 1 -> 16
      [] sx = 1 /\ sy = 2 -> 32  [] sx = 1 /\ sy = 3 -> 128

PixW == 2 * prev.width
PixH == 4 * prev.height

\* the last call took pixel coordinates, and they lie on the canvas
ArgsInBounds == call.args[1] < PixW /\ call.args[2] < PixH

\* the screen row the last call's y names
ArgScreenY ==
    IF call.op \in {"set_pixel", "unset_pixel"}
    THEN PixH - 1 - call.args[2]
    ELSE call.args[2]

\* the cell (element of the three sequences) and the dot the last call names
ArgCell == (ArgScreenY \div 4) * prev.width + (call.args[1] \div 2) + 1
ArgBit == DocBit(call.args[1] % 2, ArgScreenY % 4)

SameCells ==
    /\ buffer = prev.buffer
    /\ colors = prev.colors
    /\ text_layer = prev.text_layer

\* C1: a set_pixel, set_pixel_screen, unset_pixel, unset_pixel_screen or
\* toggle_pixel_screen call with x >= pixel_width() or y >= pixel_height()
\* leaves buffer, colors and text_layer unchanged.
C1_OutOfBoundsIgnored ==
    (/\ call.op \in {"set_pixel", "set_pixel_screen", "unset_pixel",
                     "unset_pixel_screen", "toggle_pixel_screen"}
     /\ ~ArgsInBounds)
        => SameCells

\* C2: set_pixel_screen on an empty cell leaves exactly the documented bit
\* of the sub-position, a single bit; on any cell it leaves the bitwise OR
\* of the cell's mask and that bit.
C2_SetPixelScreenMask ==
    (call.op = "set_pixel_screen" /\ ArgsInBounds)
        => /\ ArgBit \in {Pow2(k) : k \in 0..7}
           /\ prev.buffer[ArgCell] = 0 => buffer[ArgCell] = ArgBit
           /\ \A k \in 0..7 :
                  Bit(buffer[ArgCell], k) = 1
                      <=> (Bit(prev.buffer[ArgCell], k) = 1 \/ ArgBit = Pow2(k))

\* C2's case: a second, different dot was set in a cell
C2_Witness ==
    /\ call.op = "set_pixel_screen" /\ ArgsInBounds
    /\ prev.buffer[ArgCell] # 0
    /\ buffer[ArgCell] = prev.buffer[ArgCell] + ArgBit

\* C3: unset_pixel / unset_pixel_screen on an in-bounds pixel clears that
\* pixel's bit (and no other); if the cell's mask is zero afterwards the
\* cell has no colour, otherwise its colour is unchanged.
C3_UnsetClearsBitAndColor ==
    (call.op \in {"unset_pixel", "unset_pixel_screen"} /\ ArgsInBounds)
        => /\ \A k \in 0..7 :
                  Bit(buffer[ArgCell], k) = 1
                      <=> (Bit(prev.buffer[ArgCell], k) = 1 /\ ArgBit # Pow2(k))
           /\ buffer[ArgCell] = 0 => colors[ArgCell] = None
           /\ buffer[ArgCell] # 0 => colors[ArgCell] = prev.colors[ArgCell]

\* C3's case: the last lit dot of a coloured cell was unset
C3_Witness ==
    /\ call.op \in {"unset_pixel", "unset_pixel_screen"} /\ ArgsInBounds
    /\ prev.buffer[ArgCell] = ArgBit
    /\ prev.colors[ArgCell] # None
    /\ buffer[ArgCell] = 0 /\ colors[ArgCell] = None

\* C3's other case: one of several lit dots of a coloured cell was unset
C3_WitnessSeveral ==
    /\ call.op \in {"unset_pixel", "unset_pixel_screen"} /\ ArgsInBounds
    /\ BitAnd(prev.buffer[ArgCell], ArgBit) # 0
    /\ buffer[ArgCell] # 0
    /\ colors[ArgCell] # None

\* C4: a pixel write with colour c into a cell: with no colour given the
\* cell's colour stays; a colourless cell takes c; a coloured cell keeps
\* its colour under KeepFirst and takes c under Overwrite.
C4_BlendModes ==
    (call.op \in {"set_pixel", "set_pixel_screen"} /\ ArgsInBounds)
        => LET c == call.args[3]
               old == prev.colors[ArgCell]
               new == colors[ArgCell]
           IN  /\ c = None => new = old
               /\ (c # None /\ old = None) => new = c
               /\ (c # None /\ old # None /\ prev.blend_mode = "KeepFirst")
                      => new = old
               /\ (c # None /\ prev.blend_mode = "Overwrite") => new = c

\* C4's case: colour B written under KeepFirst into a cell of colour A
C4_Witness ==
    /\ call.op \in {"set_pixel", "set_pixel_screen"} /\ ArgsInBounds
    /\ prev.blend_mode = "KeepFirst"
    /\ call.args[3] # None
    /\ prev.colors[ArgCell] # None
    /\ prev.colors[ArgCell] # call.args[3]
    /\ colors[ArgCell] = prev.colors[ArgCell]

\* C4's other case: colour B written under Overwrite into a cell of colour A
C4_WitnessOverwrite ==
    /\ call.op \in {"set_pixel", "set_pixel_screen"} /\ ArgsInBounds
    /\ prev.blend_mode = "Overwrite"
    /\ call.args[3] # None
    /\ prev.colors[ArgCell] # None
    /\ prev.colors[ArgCell] # call.args[3]
    /\ colors[ArgCell] = call.args[3]

\* a canvas with no dot, no colour and no text
AllClear ==
    \A i \in 1..Len(buffer) :
        buffer[i] = 0 /\ colors[i] = None /\ text_layer[i] = None

\* C8: render_with_options(false, None) of an all-clear w x h canvas is h
\* lines of w times U+2800 and a newline, and nothing else.
C8_RenderEmpty ==
    (call.op = "render_with_options" /\ call.args = <<FALSE, None>> /\ AllClear)
        => /\ Len(ret) = height * (width + 1)
           /\ \A j \in 1..Len(ret) :
                  ret[j] = IF j % (width + 1) = 0 THEN 10 ELSE 10240
           /\ (width = 1 /\ height = 1) => ret = <<10240, 10>>

\* C8's case: an all-clear canvas of several cells was rendered, after it
\* had been drawn on and cleared
C8_Witness ==
    /\ call.op = "render_with_options" /\ call.args = <<FALSE, None>>
    /\ AllClear
    /\ width * height >= 2
    /\ ops >= 2

Lit(cells, w, x, y) ==
    BitAnd(cells[(y \div 4) * w + (x \div 2) + 1], DocBit(x % 2, y % 4)) # 0

\* the point (x, y) lies in the pixel rectangle the last call was made on
InRect(x, y) == x >= 0 /\ x < PixW /\ y >= 0 /\ y < PixH

\* the two endpoints of the last line call lie outside the rectangle on the
\* same side of it
EndpointsSameSide ==
    LET x0 == call.args[1]
        y0 == call.args[2]
        x1 == call.args[3]
        y1 == call.args[4]
    IN  \/ x0 < 0 /\ x1 < 0
        \/ x0 >= PixW /\ x1 >= PixW
        \/ y0 < 0 /\ y1 < 0
        \/ y0 >= PixH /\ y1 >= PixH

\* C5: a line or line_screen call whose two endpoints are both left of the
\* pixel rectangle, both right of it, both above it or both below it sets
\* no pixel: buffer, colors and text_layer are unchanged.
C5_SameSideDrawsNothing ==
    (call.op \in {"line", "line_screen"} /\ EndpointsSameSide) => SameCells

\* C5's case: a line that runs down the left of a canvas with cells, from
\* beside the rectangle to its corner region or along it, has returned
C5_Witness ==
    /\ call.op \in {"line", "line_screen"}
    /\ width * height >= 1
    /\ call.args[1] < 0 /\ call.args[3] < 0
    /\ call.args[2] >= 0 /\ call.args[2] < PixH
    /\ call.args[4] # call.args[2]
    /\ ret = <<>>

\* C5's other case: a cartesian line below the last row of a canvas with
\* cells has returned
C5_WitnessBelow ==
    /\ call.op = "line"
    /\ width * height >= 1
    /\ call.args[2] >= PixH /\ call.args[4] >= PixH
    /\ InRect(call.args[1], 0) /\ InRect(call.args[3], 0)
    /\ call.args[1] # call.args[3]
    /\ ret = <<>>

\* the points Bresenham's stepping visits from (x, y) to (ln.x1, ln.y1)
RECURSIVE Visited(_, _, _, _, _)
Visited(ln, x, y, err, fuel) ==
    IF (x = ln.x1 /\ y = ln.y1) \/ fuel = 0 THEN {<<x, y>>}
    ELSE LET e2 == 2 * err
             step_x == e2 >= ln.dy
             err_x == IF step_x THEN err + ln.dy ELSE err
             step_y == e2 <= ln.dx
             err_y == IF step_y THEN err_x + ln.dx ELSE err_x
         IN  {<<x, y>>} \cup Visited(ln, IF step_x THEN x + ln.sx ELSE x,
                                     IF step_y THEN y + ln.sy ELSE y,
                                     err_y, fuel - 1)

\* the points of the Bresenham walk from (x0, y0) to (x1, y1), not clipped
UnclippedWalk(x0, y0, x1, y1) ==
    LET dx == Abs(x1 - x0)
        dy == -Abs(y1 - y0)
    IN  Visited([x1 |-> x1, y1 |-> y1, dx |-> dx, dy |-> dy,
                 sx |-> IF x0 < x1 THEN 1 ELSE -1,
                 sy |-> IF y0 < y1 THEN 1 ELSE -1],
                x0, y0, dx + dy, dx - dy)

\* C6: a line_screen call with an endpoint outside the pixel rectangle sets
\* only pixels of the rectangle that the unclipped Bresenham walk between
\* the endpoints it was given visits (walked from either endpoint); no pixel
\* off that walk is set.
C6_LineScreenInsidePortion ==
    (/\ call.op = "line_screen"
     /\ ret = <<>>
     /\ \/ ~InRect(call.args[1], call.args[2])
        \/ ~InRect(call.args[3], call.args[4]))
        => \A x \in 0..(PixW - 1), y \in 0..(PixH - 1) :
               (Lit(buffer, width, x, y) /\ ~Lit(prev.buffer, width, x, y))
                   => \/ <<x, y>> \in UnclippedWalk(call.args[1], call.args[2],
                                                    call.args[3], call.args[4])
                      \/ <<x, y>> \in UnclippedWalk(call.args[3], call.args[4],
                                                    call.args[1], call.args[2])

\* C7: after any sequence of operations width and height are the values
\* given to new(w, h), pixel_width() = 2*w, pixel_height() = 4*h, and buffer,
\* colors and text_layer have length w*h each.
C7_Dimensions ==
    /\ width = made[1]
    /\ height = made[2]
    /\ pixel_width(Self) = 2 * made[1]
    /\ pixel_height(Self) = 4 * made[2]
    /\ Len(buffer) = made[1] * made[2]
    /\ Len(colors) = made[1] * made[2]
    /\ Len(text_layer) = made[1] * made[2]

\* C7's case: a canvas with a text was drawn on with a shape and then
\* cleared
C7_Witness ==
    /\ call.op = "clear"
    /\ width * height >= 1
    /\ \E i \in 1..Len(prev.buffer) : prev.buffer[i] # 0
    /\ \E i \in 1..Len(prev.buffer) : prev.text_layer[i] # None
    /\ AllClear

\* the range one axis gets from the finite coordinates S of the valid
\* points and the padding pad: (lo - span*pad, hi + span*pad), where span is
\* hi - lo, or 1.0 when hi - lo < 1e-9
PaddedRange(S, pad) ==
    LET lo == CHOOSE m \in S : \A v \in S : ~Lt(v, m)
        hi == CHOOSE m \in S : \A v \in S : ~Lt(m, v)
        d == fsub(hi, lo)
        span == IF d.u < 0 \/ (d.u = 0 /\ d.t < 20) THEN F(10, 0) ELSE d
    IN  <<fsub(lo, fmul(span, pad)), fadd(hi, fmul(span, pad))>>

\* C10: get_auto_range looks only at the points with two finite
\* coordinates; with such a point it returns, per axis, (min - span*padding,
\* max + span*padding), span being max - min or 1.0 when max - min < 1e-9;
\* without one it returns ((0,1),(0,1)); [(0,0),(10,20)] with padding 0.1
\* gives ((-1,11),(-2,22)).
C10_AutoRange ==
    call.op = "get_auto_range"
        => LET points == call.args[1]
               pad == call.args[2]
               Valid == {i \in 1..Len(points) :
                            /\ points[i][1].kind = "finite"
                            /\ points[i][2].kind = "finite"}
           IN  /\ Valid = {}
                      => ret = <<<<F(0, 0), F(10, 0)>>, <<F(0, 0), F(10, 0)>>>>
               /\ Valid # {}
                      => ret = <<PaddedRange({points[i][1] : i \in Valid}, pad),
                                 PaddedRange({points[i][2] : i \in Valid}, pad)>>
               /\ (/\ points = <<<<F(0, 0), F(0, 0)>>, <<F(100, 0), F(200, 0)>>>>
                   /\ pad = F(1, 0))
                      => ret = <<<<F(-10, 0), F(110, 0)>>,
                                 <<F(-20, 0), F(220, 0)>>>>

\* C10's case: the range of [(0,0),(10,20)] with padding 0.1 was computed
C10_Witness ==
    /\ call.op = "get_auto_range"
    /\ call.args = <<<<<<F(0, 0), F(0, 0)>>, <<F(100, 0), F(200, 0)>>>>, F(1, 0)>>
    /\ ret = <<<<F(-10, 0), F(110, 0)>>, <<F(-20, 0), F(220, 0)>>>>

\* C10's other cases: points half of 1e-9 apart in x, beside a point with a
\* NaN, got the span 1.0 in x; points 1e-9 apart did not
C10_WitnessDegenerate ==
    /\ call.op = "get_auto_range"
    /\ Len(call.args[1]) = 2
    /\ call.args[2] = F(5, 0)
    /\ \E i \in 1..2 : call.args[1][i] = <<F(0, 0), F(100, 0)>>
    /\ \E i \in 1..2 : call.args[1][i] = <<F(0, 10), F(100, 0)>>
    /\ ret[1] = <<F(-5, 0), F(5, 10)>>

C10_WitnessNotDegenerate ==
    /\ call.op = "get_auto_range"
    /\ call.args = <<<<<<F(0, 0), F(0, 0)>>, <<F(0, 20), F(0, 0)>>>>, F(5, 0)>>
    /\ ret[1] = <<F(0, -10), F(0, 30)>>

\* C10's last case: no point with two finite coordinates among the points
C10_WitnessNoValid ==
    /\ call.op = "get_auto_range"
    /\ Len(call.args[1]) = 2
    /\ ret = <<<<F(0, 0), F(10, 0)>>, <<F(0, 0), F(10, 0)>>>>

\* C7's other case: a circle was drawn on a canvas of two cells
C7_WitnessCircle ==
    /\ call.op \in {"circle", "circle_filled"}
    /\ width * height = 2
    /\ \A i \in 1..2 : buffer[i] # 0

\* C11: what render_to appends to a sink that accepts every write is the
\* string render_with_options returns for the same canvas and the same
\* (show_border, title); render() returns render_with_options(true, None).
C11_SinkEquivalence ==
    /\ (call.op = "render_to" /\ ret.result = "Ok")
           => ret.w.held = call.args[3].held
                  \o render_with_options(prev, call.args[1], call.args[2])
    /\ call.op = "render" => ret = render_with_options(prev, TRUE, None)

\* C11's case: render_to has appended a framed, titled canvas with a
\* coloured cell to a String that held something
C11_Witness ==
    /\ call.op = "render_to" /\ ret.result = "Ok"
    /\ call.args[1] /\ call.args[2] # None
    /\ call.args[3].held # <<>>
    /\ \E i \in 1..Len(colors) : colors[i] # None
    /\ Len(ret.w.held) > Len(call.args[3].held)

\* C11's other case: render() of a canvas with a text
C11_WitnessRender ==
    /\ call.op = "render"
    /\ \E i \in 1..Len(text_layer) : text_layer[i] # None

\* C12: render_to returns Err exactly when the sink rejects one of its
\* writes; the rejected write is the last one it issues and the sink holds
\* what it accepted before; otherwise it returns Ok, having issued every
\* write; the canvas is unchanged either way.
C12_SinkFailure ==
    call.op = "render_to"
        => LET w == call.args[3]
               ws == render_to_writes(prev, call.args[1], call.args[2])
               rejects == w.limited /\ w.accepts < Len(ws)
           IN  /\ ret.result = "Err" <=> rejects
               /\ ret.result \in {"Ok", "Err"}
               /\ rejects
                      => /\ ret.issued = w.accepts + 1
                         /\ ret.w.held
                                = w.held \o Flatten(SubSeq(ws, 1, w.accepts))
               /\ ~rejects
                      => /\ ret.issued = Len(ws)
                         /\ ret.w.held = w.held \o Flatten(ws)
               /\ SameCells
               /\ blend_mode = prev.blend_mode

\* C12's case: a sink rejected a write in the middle of a canvas with a
\* coloured cell
C12_Witness ==
    /\ call.op = "render_to"
    /\ ret.result = "Err"
    /\ ret.issued >= 3
    /\ ret.issued < Len(render_to_writes(prev, call.args[1], call.args[2]))
    /\ \E i \in 1..Len(colors) : colors[i] # None

\* C12's other case: a limited sink accepted every write
C12_WitnessAccepted ==
    /\ call.op = "render_to"
    /\ call.args[3].limited
    /\ ret.result = "Ok"
    /\ ret.issued >= 1

\* the screen row of the cartesian row y of the canvas the last call was
\* made on
Flip(y) == PixH - 1 - y

\* C13: for in-bounds coordinates set_pixel(x, y, c) leaves the canvas that
\* set_pixel_screen(x, pixel_height()-1-y, c) leaves, unset_pixel(x, y) the
\* one unset_pixel_screen(x, pixel_height()-1-y) leaves, and line with
\* in-bounds endpoints the one line_screen with both y inverted leaves.
C13_CartesianIsScreenInverted ==
    /\ (call.op = "set_pixel" /\ ArgsInBounds)
           => Self = set_pixel_screen(prev, call.args[1], Flip(call.args[2]),
                                      call.args[3])
    /\ (call.op = "unset_pixel" /\ ArgsInBounds)
           => Self = unset_pixel_screen(prev, call.args[1], Flip(call.args[2]))
    /\ (/\ call.op = "line"
        /\ InRect(call.args[1], call.args[2])
        /\ InRect(call.args[3], call.args[4]))
           => /\ ret = <<>>
              /\ Self = line_screen(prev, call.args[1], Flip(call.args[2]),
                                    call.args[3], Flip(call.args[4]),
                                    call.args[5]).self

\* C13's case: a slanted cartesian line between in-bounds endpoints was
\* drawn with a colour
C13_Witness ==
    /\ call.op = "line"
    /\ InRect(call.args[1], call.args[2])
    /\ InRect(call.args[3], call.args[4])
    /\ call.args[1] # call.args[3]
    /\ Abs(call.args[2] - call.args[4]) >= 2
    /\ call.args[5] # None
    /\ \E i \in 1..Len(buffer) : buffer[i] # 0 /\ colors[i] # None

\* C13's other cases: a pixel off the middle row was set, and one was unset
C13_WitnessSet ==
    /\ call.op = "set_pixel" /\ ArgsInBounds
    /\ call.args[2] = 0
    /\ buffer # prev.buffer

C13_WitnessUnset ==
    /\ call.op = "unset_pixel" /\ ArgsInBounds
    /\ call.args[2] = 0
    /\ buffer # prev.buffer

\* C14: under KeepFirst a cell that holds a colour keeps that colour over
\* every mutation call (set_pixel*, toggle_pixel_screen, line*, rect*,
\* circle*, set_char), unless the call is clear() or an unset that leaves the
\* cell's mask empty.
C14_KeepFirstSticky ==
    (/\ prev.blend_mode = "KeepFirst"
     /\ call.op \in {"set_pixel", "set_pixel_screen", "unset_pixel",
                     "unset_pixel_screen", "toggle_pixel_screen", "set_char"}
                        \cup ShapeOps)
        => \A i \in 1..Len(colors) :
               (/\ prev.colors[i] # None
                /\ ~(/\ call.op \in {"unset_pixel", "unset_pixel_screen",
                                     "toggle_pixel_screen"}
                     /\ buffer[i] = 0))
                   => colors[i] = prev.colors[i]


---------------------------------------------------------------------------
(* What a render produced, read back from the characters: its lines, and   *)
(* in the line of a canvas row the escape sequences and the glyphs.        *)

\* the last call rendered the whole canvas
Rendered ==
    \/ call.op \in {"render", "render_with_options"}
    \/ call.op = "render_to" /\ ret.result = "Ok"

\* the characters it produced
Output ==
    IF call.op = "render_to"
    THEN SubSeq(ret.w.held, Len(call.args[3].held) + 1, Len(ret.w.held))
    ELSE ret

Bordered == IF call.op = "render" THEN TRUE ELSE call.args[1]
Titled == call.op # "render" /\ call.args[2] # None

\* the lines of s; cur is the line read so far
RECURSIVE SplitLines(_, _)
SplitLines(s, cur) ==
    IF s = <<>> THEN <<cur>>
    ELSE IF Head(s) = 10 THEN <<cur>> \o SplitLines(Tail(s), <<>>)
    ELSE SplitLines(Tail(s), Append(cur, Head(s)))

\* the length of the escape sequence s starts with: it ends with its 'm'
RECURSIVE EscLen(_)
EscLen(s) == IF Head(s) = 109 THEN 1 ELSE 1 + EscLen(Tail(s))

\* s cut into escape sequences and single characters
RECURSIVE Tokens(_)
Tokens(s) ==
    IF s = <<>> THEN <<>>
    ELSE LET n == IF Head(s) = 27 THEN EscLen(s) ELSE 1
         IN  <<SubSeq(s, 1, n)>> \o Tokens(SubSeq(s, n + 1, Len(s)))

IsEscape(t) == Head(t) = 27
IsReset(t) == t = <<27, 91, 48, 109>>
IsColourSet(t) == IsEscape(t) /\ ~IsReset(t)

\* SGR 31 and 32 select red and green
DocColour(c) ==
    CASE c = "Red" -> <<27, 91, 51, 49, 109>>
      [] c = "Green" -> <<27, 91, 51, 50, 109>>

\* the tokens of the canvas row `row`, between the bars of the border
RowTokens(row) ==
    LET l == SplitLines(Output, <<>>)[row + 1 + (IF Titled THEN 1 ELSE 0)
                                          + (IF Bordered THEN 1 ELSE 0)]
    IN  Tokens(IF Bordered THEN SubSeq(l, 2, Len(l) - 1) ELSE l)

\* the positions in ts, from i on, of the tokens that are glyphs
RECURSIVE GlyphsFrom(_, _)
GlyphsFrom(ts, i) ==
    IF i > Len(ts) THEN <<>>
    ELSE (IF IsEscape(ts[i]) THEN <<>> ELSE <<i>>) \o GlyphsFrom(ts, i + 1)

\* every row of the output holds one glyph for each cell of the row
OneGlyphPerCell ==
    \A row \in 0..(prev.height - 1) :
        Len(GlyphsFrom(RowTokens(row), 1)) = prev.width

\* the glyph printed for the cell (row, col)
GlyphOf(row, col) ==
    LET ts == RowTokens(row) IN ts[GlyphsFrom(ts, 1)[col + 1]]

\* the escape sequences printed between the glyph before the cell
\* (row, col), or the start of the row, and the cell's own glyph
EscapesBefore(row, col) ==
    LET ts == RowTokens(row)
        g == GlyphsFrom(ts, 1)
    IN  SubSeq(ts, IF col = 0 THEN 1 ELSE g[col] + 1, g[col + 1] - 1)

\* the escape sequences printed after the last glyph of the row
EscapesAfter(row) ==
    LET ts == RowTokens(row)
        g == GlyphsFrom(ts, 1)
    IN  SubSeq(ts, IF g = <<>> THEN 1 ELSE g[Len(g)] + 1, Len(ts))

ColourSetsIn(es) == {i \in 1..Len(es) : IsColourSet(es[i])}
ResetsIn(es) == {i \in 1..Len(es) : IsReset(es[i])}

\* the rendered canvas's cell (row, col): colour, text and mask
ColourAt(row, col) == prev.colors[row * prev.width + col + 1]
TextAt(row, col) == prev.text_layer[row * prev.width + col + 1]
MaskAt(row, col) == prev.buffer[row * prev.width + col + 1]

RenderedRows == 0..(prev.height - 1)
RenderedCols == 0..(prev.width - 1)

\* the colour of the cell before (row, col) in the same row
PrecedingInRow(row, col) ==
    IF col > 0 THEN ColourAt(row, col - 1) ELSE None

\* the colour of the cell before (row, col) in reading order
PrecedingInReadingOrder(row, col) ==
    IF col > 0 THEN ColourAt(row, col - 1)
    ELSE IF row > 0 THEN ColourAt(row - 1, prev.width - 1)
    ELSE None

\* C15 as stated: in the output of render_to, a colour-set escape is
\* printed before a cell's glyph only when the cell's colour differs from
\* the colour of the cell before it in row-major reading order (for the
\* first cell of a row, the last cell of the row above); two cells
\* consecutive in reading order with the same colour never cause a second
\* colour-set escape.
C15_DifferentialAcrossRows ==
    Rendered =>
        /\ OneGlyphPerCell
        /\ \A row \in RenderedRows, col \in RenderedCols :
               ColourSetsIn(EscapesBefore(row, col)) # {}
                   => ColourAt(row, col) # PrecedingInReadingOrder(row, col)

\* C15, amended: in the output of render_to, a colour-set escape is printed
\* before a cell's glyph only when the cell's colour differs from the
\* colour of the cell before it in the same row, the first cell of a row
\* being compared with no colour; two cells consecutive in a row with the
\* same colour never cause a second colour-set escape.
C15_DifferentialWithinRow ==
    Rendered =>
        /\ OneGlyphPerCell
        /\ \A row \in RenderedRows, col \in RenderedCols :
               ColourSetsIn(EscapesBefore(row, col)) # {}
                   => ColourAt(row, col) # PrecedingInRow(row, col)

\* a row of two cells of the same colour was rendered, with one escape
C15_Witness ==
    /\ Rendered
    /\ prev.width = 2 /\ prev.height = 1
    /\ ColourAt(0, 0) # None
    /\ ColourAt(0, 1) = ColourAt(0, 0)
    /\ ColourSetsIn(EscapesBefore(0, 0)) # {}
    /\ ColourSetsIn(EscapesBefore(0, 1)) = {}

\* a row of two cells of different colours was rendered, with two escapes
C15_WitnessChange ==
    /\ Rendered
    /\ prev.width = 2 /\ prev.height = 1
    /\ ColourAt(0, 0) # None /\ ColourAt(0, 1) # None
    /\ ColourAt(0, 1) # ColourAt(0, 0)
    /\ ColourSetsIn(EscapesBefore(0, 1)) # {}

\* a column of two cells of the same colour was rendered: the lower cell,
\* first of its row, got its escape
C15_WitnessNextRow ==
    /\ Rendered
    /\ prev.width = 1 /\ prev.height = 2
    /\ ColourAt(0, 0) # None
    /\ ColourAt(1, 0) = ColourAt(0, 0)
    /\ ColourSetsIn(EscapesBefore(1, 0)) # {}



\* the lines of the output that are not the line of a canvas row: the
\* title, the two lines of the border, what follows the last line feed
OtherLines ==
    LET l == SplitLines(Output, <<>>)
        before == (IF Titled THEN 1 ELSE 0) + (IF Bordered THEN 1 ELSE 0)
    IN  {l[i] : i \in (1..before) \cup ((before + prev.height + 1)..Len(l))}

\* C16: in the output of render_to, a reset escape (ESC[0m) is printed
\* exactly once at the end of each row whose last cell has a colour, and
\* exactly once before each colourless cell whose preceding cell in the
\* same row has a colour; no reset escape is printed anywhere else.
C16_Resets ==
    Rendered =>
        /\ OneGlyphPerCell
        /\ \A row \in RenderedRows :
            /\ \A col \in RenderedCols :
                   Cardinality(ResetsIn(EscapesBefore(row, col)))
                       = IF /\ ColourAt(row, col) = None
                            /\ PrecedingInRow(row, col) # None
                         THEN 1 ELSE 0
            /\ Cardinality(ResetsIn(EscapesAfter(row)))
                   = IF /\ prev.width > 0
                        /\ ColourAt(row, prev.width - 1) # None
                     THEN 1 ELSE 0
        /\ \A l \in OtherLines : \A i \in 1..Len(l) : l[i] # 27

\* a row whose first cell has a colour and whose second has none was
\* rendered: one reset before the second glyph, none at the end of the row
C16_Witness ==
    /\ Rendered
    /\ prev.width = 2 /\ prev.height = 1
    /\ ColourAt(0, 0) # None /\ ColourAt(0, 1) = None
    /\ Cardinality(ResetsIn(EscapesBefore(0, 1))) = 1
    /\ ResetsIn(EscapesAfter(0)) = {}

\* a row of two cells of different colours was rendered: no reset between
\* the two glyphs, one at the end of the row
C16_WitnessRowEnd ==
    /\ Rendered
    /\ prev.width = 2 /\ prev.height = 1
    /\ ColourAt(0, 0) # None /\ ColourAt(0, 1) # None
    /\ ColourAt(0, 1) # ColourAt(0, 0)
    /\ ResetsIn(EscapesBefore(0, 1)) = {}
    /\ Cardinality(ResetsIn(EscapesAfter(0))) = 1

\* a canvas with a title, a border and no coloured cell was rendered, with
\* no reset at all
C16_WitnessNoColour ==
    /\ Rendered
    /\ Titled /\ Bordered
    /\ prev.width * prev.height = 2
    /\ \A i \in 1..Len(prev.colors) : prev.colors[i] = None
    /\ \A i \in 1..Len(Output) : Output[i] # 27



\* the escape sequence in force at the glyph of the cell (row, col): the
\* last one printed in the row before the glyph, <<>> when there is none
InForceAt(row, col) ==
    LET ts == RowTokens(row)
        e == {i \in 1..(GlyphsFrom(ts, 1)[col + 1] - 1) : IsEscape(ts[i])}
    IN  IF e = {} THEN <<>>
        ELSE ts[CHOOSE i \in e : \A j \in e : j <= i]

\* C17: for every cell with a text override, render_to and
\* render_with_options print the override character in place of the
\* Braille glyph whatever the cell's mask, with the cell's colour (if any)
\* in force; for every cell without an override they print the character
\* U+2800 + mask.
C17_TextOverride ==
    Rendered =>
        /\ OneGlyphPerCell
        /\ \A row \in RenderedRows, col \in RenderedCols :
               IF TextAt(row, col) # None
               THEN /\ GlyphOf(row, col) = <<TextAt(row, col)[1]>>
                    /\ ColourAt(row, col) # None
                           => InForceAt(row, col)
                                  = DocColour(ColourAt(row, col)[1])
               ELSE GlyphOf(row, col) = <<10240 + MaskAt(row, col)>>

\* a cell with dots, a colour and a text override was rendered
C17_Witness ==
    /\ Rendered
    /\ \E row \in RenderedRows, col \in RenderedCols :
        /\ TextAt(row, col) # None
        /\ MaskAt(row, col) # 0
        /\ ColourAt(row, col) # None
        /\ GlyphOf(row, col) = <<97>>

\* a cell with dots and no text override was rendered next to one with an
\* override
C17_WitnessGlyph ==
    /\ Rendered
    /\ \E row \in RenderedRows, col \in RenderedCols :
        /\ TextAt(row, col) = None
        /\ MaskAt(row, col) # 0
        /\ GlyphOf(row, col) = <<10240 + MaskAt(row, col)>>
    /\ \E row \in RenderedRows, col \in RenderedCols : TextAt(row, col) # None



\* C18: set_char(col, row, ch, color) with col >= width or row >= height
\* is ignored: it leaves buffer, colors and text_layer unchanged; with
\* (col, row) on the canvas it changes only the text and colour entry of
\* the cell at column col, cartesian row row.
C18_SetCharBounds ==
    call.op = "set_char" =>
        IF call.args[1] >= prev.width \/ call.args[2] >= prev.height
        THEN SameCells
        ELSE LET k == (prev.height - 1 - call.args[2]) * prev.width
                          + call.args[1] + 1
             IN  /\ buffer = prev.buffer
                 /\ \A i \in 1..Len(buffer) :
                        i # k => /\ text_layer[i] = prev.text_layer[i]
                                 /\ colors[i] = prev.colors[i]

\* C18 for the columns: set_char with col >= width and row < height leaves
\* buffer, colors and text_layer unchanged
C18_ColumnOutOfBounds ==
    (/\ call.op = "set_char"
     /\ call.args[1] >= prev.width
     /\ call.args[2] < prev.height) => SameCells



---------------------------------------------------------------------------
(* Circles.  The midpoint progression of a radius r starts at (0, r) with  *)
(* d = 3 - 2r and steps while y >= x; a circle is the eight reflections of *)
(* its points about the centre, a filled circle the horizontal spans       *)
(* between them.                                                           *)

\* the points (x, y) of the midpoint progression from (x, y, d) on
RECURSIVE Progression(_, _, _)
Progression(x, y, d) ==
    {<<x, y>>} \cup
        IF y >= x
        THEN IF d > 0
             THEN Progression(x + 1, y - 1, d + 4 * ((x + 1) - (y - 1)) + 10)
             ELSE Progression(x + 1, y, d + 4 * (x + 1) + 6)
        ELSE {}

\* the integers between a and b, whichever is the larger
Between(a, b) == IF a <= b THEN a..b ELSE b..a

\* the points of the circle of centre (xc, yc) and radius r
CirclePoints(xc, yc, r) ==
    UNION {{<<xc + p[1], yc + p[2]>>, <<xc - p[1], yc + p[2]>>,
            <<xc + p[1], yc - p[2]>>, <<xc - p[1], yc - p[2]>>,
            <<xc + p[2], yc + p[1]>>, <<xc - p[2], yc + p[1]>>,
            <<xc + p[2], yc - p[1]>>, <<xc - p[2], yc - p[1]>>}
               : p \in Progression(0, r, 3 - 2 * r)}

\* the points of the spans of the filled circle
SpanPoints(xc, yc, r) ==
    UNION {{<<x, y>> : x \in Between(xc - p[1], xc + p[1]),
                       y \in {yc + p[2], yc - p[2]}}
           \cup {<<x, y>> : x \in Between(xc - p[2], xc + p[2]),
                            y \in {yc + p[1], yc - p[1]}}
               : p \in Progression(0, r, 3 - 2 * r)}

\* the pixels of the canvas that are lit, by their cartesian position
LitPixels ==
    {p \in (0..(PixW - 1)) \X (0..(PixH - 1)) :
        Lit(buffer, width, p[1], PixH - 1 - p[2])}

\* C19: for circle and circle_filled with any centre and radius, the
\* points that fall outside the pixel rectangle are skipped: every pixel
\* that ends up set is at the cartesian position of a point of the midpoint
\* progression (for circle_filled, of one of its spans); no point off the
\* canvas is wrapped or clamped onto a pixel of the canvas.
C19_OffCanvasSkipped ==
    /\ call.op = "circle" =>
           LitPixels \subseteq CirclePoints(call.args[1], call.args[2],
                                            call.args[3])
    /\ call.op = "circle_filled" =>
           LitPixels \subseteq SpanPoints(call.args[1], call.args[2],
                                          call.args[3])

\* C19 for circle_filled alone
C19_FilledOffCanvasSkipped ==
    call.op = "circle_filled" =>
        LitPixels \subseteq SpanPoints(call.args[1], call.args[2],
                                       call.args[3])

\* C19 for the circles that reach no pixel row above the canvas
C19_BelowTopSkipped ==
    (/\ call.op = "circle"
     /\ \A p \in CirclePoints(call.args[1], call.args[2], call.args[3]) :
            p[1] >= 0 => p[2] < PixH)
        => LitPixels \subseteq CirclePoints(call.args[1], call.args[2],
                                            call.args[3])



\* the last call drew a filled circle of radius r >= 0 that lies entirely
\* inside the canvas
FilledCircleInside ==
    /\ call.op = "circle_filled"
    /\ call.args[3] >= 0
    /\ call.args[1] - call.args[3] >= 0
    /\ call.args[1] + call.args[3] < PixW
    /\ call.args[2] - call.args[3] >= 0
    /\ call.args[2] + call.args[3] < PixH

\* the columns of the lit pixels of the cartesian pixel row y
LitInRow(y) == {x \in 0..(PixW - 1) : Lit(buffer, width, x, PixH - 1 - y)}

\* C20: for r >= 0 and a circle lying entirely inside the canvas,
\* circle_filled(xc, yc, r) fills without gaps: every pixel row from yc - r
\* to yc + r holds set pixels, the set pixels of each row form one
\* contiguous horizontal span centred on xc, and every pixel that
\* circle(xc, yc, r) sets is also set by circle_filled(xc, yc, r).
C20_FilledWithoutGaps ==
    FilledCircleInside =>
        LET xc == call.args[1]
            yc == call.args[2]
            r == call.args[3]
        IN  /\ \A y \in (yc - r)..(yc + r) :
                /\ LitInRow(y) # {}
                /\ \A a \in LitInRow(y), b \in LitInRow(y) :
                       \A x \in a..b : x \in LitInRow(y)
                /\ \A x \in LitInRow(y) : 2 * xc - x \in LitInRow(y)
            /\ \A outline \in {circle(prev, xc, yc, r, call.args[4]).self.buffer} :
                   \A x \in 0..(PixW - 1), y \in 0..(PixH - 1) :
                       Lit(outline, width, x, y) => Lit(buffer, width, x, y)

\* C20 for the circles whose centre lies below the top pixel row, or
\* whose radius is not 0: the pixels that circle(xc, yc, 0) sets one row
\* above its centre then lie on the canvas
C20_FilledWithoutGapsBelowTop ==
    (FilledCircleInside /\ ~(call.args[3] = 0 /\ call.args[2] = PixH - 1))
        => C20_FilledWithoutGaps

\* the circle of radius 0 whose centre (0, 3) lies in the top pixel row of
\* a canvas of one cell sets the pixel (1, 3), and the filled circle does
\* not
C20_TopRowOutline ==
    (/\ call.op = "circle_filled"
     /\ made = <<1, 1>>
     /\ call.args = <<0, 3, 0, None>>)
        => /\ Lit(circle(prev, 0, 3, 0, None).self.buffer, 1, 1, 0)
           /\ <<1, 3>> \notin LitPixels


---------------------------------------------------------------------------
(* Lines whose endpoints may lie far off the canvas.                       *)

\* the last call drew a line on a canvas of at least one cell
LineOnCanvas ==
    /\ call.op \in {"line", "line_screen"}
    /\ prev.width >= 1
    /\ prev.height >= 1

\* how the clip loop of the last line call ended
Clipped ==
    clip(prev, call.args[1], call.args[2], call.args[3], call.args[4],
         MaxClipIter)

\* C21: on a canvas with width, height >= 1 the clip loop of line and
\* line_screen reaches trivial accept or trivial reject after finitely many
\* iterations and never divides by zero (the call returns), and on accept
\* both clipped endpoints lie inside the pixel rectangle.
C21_ClipTerminates ==
    LineOnCanvas =>
        /\ ret = <<>>
        /\ Clipped.status \in {"accept", "reject"}
        /\ Clipped.status = "accept" =>
               /\ InRect(Clipped.x0, Clipped.y0)
               /\ InRect(Clipped.x1, Clipped.y1)

\* a line with both endpoints off the canvas, FarOver pixels away, was
\* accepted after both were moved to a boundary
C21_Witness ==
    /\ LineOnCanvas
    /\ ~InRect(call.args[1], call.args[2])
    /\ ~InRect(call.args[3], call.args[4])
    /\ call.args[1] = 0 - FarOver
    /\ call.args[4] = PixH - 1 + FarOver
    /\ Clipped.status = "accept"
    /\ ret = <<>>
    /\ \E i \in 1..Len(buffer) : buffer[i] # 0

\* a line with endpoints off the canvas on different sides was rejected
\* after an endpoint was moved to a boundary
C21_WitnessReject ==
    /\ LineOnCanvas
    /\ BitAnd(compute_outcode(prev, call.args[1], call.args[2]),
              compute_outcode(prev, call.args[3], call.args[4])) = 0
    /\ Clipped.status = "reject"
    /\ ret = <<>>



\* the pixel (x, y) of the rectangle, in the coordinates of the last line
\* call (cartesian for line, screen for line_screen), is set
SetAt(x, y) ==
    IF call.op = "line"
    THEN Lit(buffer, width, x, PixH - 1 - y)
    ELSE Lit(buffer, width, x, y)

\* the pixels of the edge of the rectangle
OnEdge(x, y) == x = 0 \/ x = PixW - 1 \/ y = 0 \/ y = PixH - 1

\* one endpoint of the last line call lies inside the rectangle and the
\* other outside
OneEndpointInside ==
    InRect(call.args[1], call.args[2]) # InRect(call.args[3], call.args[4])

\* the unclipped walk of the last line call, from its first endpoint to
\* its second, visits a pixel of the rectangle
WalkEntersCanvas ==
    \E p \in UnclippedWalk(call.args[1], call.args[2],
                           call.args[3], call.args[4]) : InRect(p[1], p[2])

\* the unclipped walk from the second endpoint to the first does
BackWalkEntersCanvas ==
    \E p \in UnclippedWalk(call.args[3], call.args[4],
                           call.args[1], call.args[2]) : InRect(p[1], p[2])

SomePixelSet == \E i \in 1..Len(buffer) : buffer[i] # 0

\* C22, first part: for every line / line_screen call with one endpoint
\* inside the pixel rectangle and the other outside, the inside endpoint's
\* pixel is set and at least one pixel on the edge of the canvas is set.
C22_DrawnUpToBoundary ==
    (call.op \in {"line", "line_screen"} /\ OneEndpointInside) =>
        /\ IF InRect(call.args[1], call.args[2])
           THEN SetAt(call.args[1], call.args[2])
           ELSE SetAt(call.args[3], call.args[4])
        /\ \E x \in 0..(PixW - 1), y \in 0..(PixH - 1) :
               OnEdge(x, y) /\ SetAt(x, y)

\* C22: a line that runs off the canvas is drawn up to the boundary and
\* never dropped: the first part, and for every line / line_screen call
\* whose unclipped Bresenham walk visits at least one pixel of the canvas,
\* at least one pixel is set.
C22_NeverDropped ==
    /\ C22_DrawnUpToBoundary
    /\ (call.op \in {"line", "line_screen"} /\ WalkEntersCanvas)
           => SomePixelSet

\* C22, second part, for the calls whose walk visits a pixel of the canvas
\* from whichever endpoint it starts
C22_NeverDroppedEitherWay ==
    (/\ call.op \in {"line", "line_screen"}
     /\ WalkEntersCanvas
     /\ BackWalkEntersCanvas) => SomePixelSet



---------------------------------------------------------------------------
(* Charts *)

\* the series of the last bar_chart call, its values and their slots
Series == call.args[1]
BarValue(i) == Series[i + 1][1]
Drawable(i) == is_finite(BarValue(i)) /\ Lt(ZERO, BarValue(i))
BarWidth ==
    IF PixW \div Len(Series) >= 1 THEN PixW \div Len(Series) ELSE 1
Slot(i) ==
    {x \in 0..(PixW - 1) : i * BarWidth <= x /\ x < i * BarWidth + BarWidth}

\* the value at index i is a largest one of the finite values of the series
Maximal(i) ==
    /\ Drawable(i)
    /\ \A j \in 0..(Len(Series) - 1) :
           is_finite(BarValue(j)) => ~Lt(BarValue(i), BarValue(j))

\* the pixel columns that hold a set pixel
LitColumns ==
    {x \in 0..(PixW - 1) : \E y \in 0..(PixH - 1) : Lit(buffer, width, x, y)}

\* what C23 says of the series of the last bar_chart call
BarsAsClaimed ==
    /\ ret = <<>>
    /\ LitColumns \subseteq UNION {Slot(i) : i \in {j \in 0..(Len(Series) - 1) :
                                                       Drawable(j)}}
    /\ \A i \in 0..(Len(Series) - 1) :
           (Maximal(i) /\ PixH > 0)
               => \A x \in Slot(i) : Lit(buffer, width, x, 0)
    /\ text_layer = prev.text_layer

\* C23 as stated: bar_chart over n values with at least one finite positive
\* value uses the bar width bw = max(1, pixel_width() div n); the value at
\* index i, if finite and positive, sets pixels only in the columns
\* [i*bw, min(i*bw + bw, pixel_width())); a value that is not finite or not
\* positive sets no pixel; a value with i*bw >= pixel_width() sets no pixel;
\* the bar of a maximal value reaches the top pixel row.
C23_BarChartAnyPositive ==
    (/\ call.op = "bar_chart"
     /\ \E i \in 0..(Len(Series) - 1) : Drawable(i)) => BarsAsClaimed

\* C23, amended: the same, for bar_chart over n values whose largest finite
\* value is greater than 1e-9.
C23_BarChart ==
    (/\ call.op = "bar_chart"
     /\ \E i \in 0..(Len(Series) - 1) : Lt(EPS, BarValue(i)) /\ Drawable(i))
        => BarsAsClaimed

\* two values were charted on a canvas two pixels wide: the first, a
\* maximal one, fills its column up to the top row, the second is not a
\* number and its column is empty
C23_Witness ==
    /\ call.op = "bar_chart"
    /\ PixW = 2 /\ PixH = 4
    /\ Len(Series) = 2
    /\ Maximal(0) /\ Lt(EPS, BarValue(0))
    /\ BarValue(1) = NAN
    /\ LitColumns = {0}
    /\ Lit(buffer, width, 0, 0)

\* three values were charted on a canvas two pixels wide: the third, the
\* largest, has no column, and the first does not reach the top row
C23_WitnessPastWidth ==
    /\ call.op = "bar_chart"
    /\ PixW = 2 /\ PixH = 4
    /\ Len(Series) = 3
    /\ Drawable(0) /\ Maximal(2) /\ Lt(BarValue(0), BarValue(2))
    /\ 0 \in LitColumns
    /\ ~Lit(buffer, width, 0, 0)

\* one value was charted on a canvas four pixels wide: its bar is four
\* columns wide
C23_WitnessWide ==
    /\ call.op = "bar_chart"
    /\ PixW = 4
    /\ Len(Series) = 1
    /\ LitColumns = 0..3

\* a series whose largest value is 1e-9 was charted: no pixel is set
C23_WitnessEpsilon ==
    /\ call.op = "bar_chart"
    /\ PixW = 2 /\ PixH = 4
    /\ \E i \in 0..(Len(Series) - 1) : Maximal(i) /\ BarValue(i) = EPS
    /\ LitColumns = {}


\* the points of the last scatter, line_chart or polygon call, and the
\* indices of those with two finite coordinates
Points == call.args[1]
Finite(i) == Points[i][1].kind = "finite" /\ Points[i][2].kind = "finite"
FinitePoints == {i \in 1..Len(Points) : Finite(i)}

\* where a coordinate v falls among n pixels: the least and the largest
\* coordinate of the finite points, widened by a twentieth of their span (of
\* 1 when they are equal) on either side, are the ends of the axis, and v is
\* rounded to the nearest of the n pixel centres spread over it (half way
\* between two, to the farther from the low end)
DocPixel(axis, v, n) ==
    LET vs == {Points[i][axis].q : i \in FinitePoints}
        lo == CHOOSE a \in vs : \A b \in vs : a <= b
        hi == CHOOSE a \in vs : \A b \in vs : b <= a
        span == IF hi = lo THEN 200 ELSE hi - lo
        num == (20 * (v - lo) + span) * (n - 1)
        den == 20 * (hi - lo) + 2 * span
    IN  (2 * num + den) \div (2 * den)

\* the pixel of the i-th point, in cartesian coordinates
DocPoint(i) ==
    <<DocPixel(1, Points[i][1].q, PixW), DocPixel(2, Points[i][2].q, PixH)>>

\* the pairs of points that are consecutive for the last call: neighbours
\* in the list, and for a polygon of two points or more the last and the
\* first
ConsecutivePairs ==
    IF call.op = "polygon"
    THEN IF Len(Points) < 2 THEN {}
         ELSE {<<i, (i % Len(Points)) + 1>> : i \in 1..Len(Points)}
    ELSE {<<i, i + 1>> : i \in 1..(Len(Points) - 1)}

FinitePairs == {pr \in ConsecutivePairs : Finite(pr[1]) /\ Finite(pr[2])}

\* the pixels of the bounding box of two pixels
Box(a, b) == Between(a[1], b[1]) \X Between(a[2], b[2])

HasPixels == PixW > 0 /\ PixH > 0

\* C24: non-finite points are filtered per point in the chart primitives:
\* scatter(points, c) returns and leaves the same canvas as scatter of the
\* list without the points that have a non-finite coordinate, each finite
\* point giving one pixel of the canvas (where the canvas has pixels);
\* line_chart and polygon return and draw the segment between two
\* consecutive points if and only if both are finite: the two pixels of
\* such a pair are set, and no pixel is set outside the boxes such pairs
\* span.
C24_NonFiniteFiltered ==
    /\ call.op = "scatter" =>
        /\ ret = <<>>
        /\ \A same \in {scatter(prev, SelectSeq(Points, is_valid_point),
                                call.args[2]).self} :
               /\ buffer = same.buffer
               /\ colors = same.colors
               /\ text_layer = same.text_layer
        /\ IF HasPixels
           THEN LitPixels = {DocPoint(i) : i \in FinitePoints}
           ELSE \A i \in 1..Len(buffer) : buffer[i] = 0
    /\ call.op \in {"line_chart", "polygon"} =>
        /\ ret = <<>>
        /\ HasPixels =>
               \A pr \in FinitePairs :
                   DocPoint(pr[1]) \in LitPixels /\ DocPoint(pr[2]) \in LitPixels
        /\ LitPixels \subseteq
               UNION {Box(DocPoint(pr[1]), DocPoint(pr[2])) : pr \in FinitePairs}

\* three points were scattered, the second of them not finite: two pixels
\* are set
C24_Witness ==
    /\ call.op = "scatter"
    /\ HasPixels
    /\ Len(Points) = 3
    /\ FinitePoints = {1, 3}
    /\ Cardinality(LitPixels) = 2

\* a line chart of three points whose second is not finite: no segment
C24_WitnessLineChart ==
    /\ call.op = "line_chart"
    /\ HasPixels
    /\ Len(Points) = 3
    /\ FinitePoints = {1, 3}
    /\ LitPixels = {}

\* a polygon of three points whose second is not finite: the segment from
\* the last to the first
C24_WitnessPolygon ==
    /\ call.op = "polygon"
    /\ HasPixels
    /\ Len(Points) = 3
    /\ FinitePoints = {1, 3}
    /\ Cardinality(LitPixels) >= 2

\* a line chart of three finite points in a row of two cells
C24_WitnessSegments ==
    /\ call.op = "line_chart"
    /\ PixW = 4
    /\ FinitePoints = {1, 2, 3}
    /\ Cardinality({DocPoint(i) : i \in FinitePoints}) = 3



\* C25: after clear(), whatever the canvas held, every mask is 0 and every
\* colour entry and every text override is absent, while width, height, the
\* lengths of the three buffers and blend_mode are as before the call; the
\* canvas then renders, by every render operation, as a canvas newly
\* constructed with the same dimensions does.
C25_Clear ==
    call.op = "clear" =>
        /\ ret = <<>>
        /\ \A i \in 1..Len(buffer) : buffer[i] = 0
        /\ \A i \in 1..Len(colors) : colors[i] = None
        /\ \A i \in 1..Len(text_layer) : text_layer[i] = None
        /\ width = prev.width
        /\ height = prev.height
        /\ Len(buffer) = Len(prev.buffer)
        /\ Len(colors) = Len(prev.colors)
        /\ Len(text_layer) = Len(prev.text_layer)
        /\ blend_mode = prev.blend_mode
        /\ \A fresh \in {New(width, height)} :
               /\ render(Self) = render(fresh)
               /\ render_no_color(Self) = render_no_color(fresh)
               /\ \A b \in BOOLEAN, t \in Titles :
                      render_with_options(Self, b, t)
                          = render_with_options(fresh, b, t)

\* a canvas with a dot, a colour and a text was cleared
C25_Witness ==
    /\ call.op = "clear"
    /\ \E i \in 1..Len(prev.buffer) : prev.buffer[i] # 0
    /\ \E i \in 1..Len(prev.buffer) : prev.colors[i] # None
    /\ \E i \in 1..Len(prev.buffer) : prev.text_layer[i] # None

\* a canvas whose blend mode is not the one of a new canvas was cleared
C25_WitnessBlendMode ==
    /\ call.op = "clear"
    /\ prev.blend_mode = "KeepFirst"
    /\ \E i \in 1..Len(prev.buffer) : prev.colors[i] # None



\* C26: in every state reached by any sequence of public canvas operations,
\* a cell that holds a colour has a non-zero mask or a text override.
C26_ColourHasContent ==
    \A i \in 1..Len(colors) :
        colors[i] # None => (buffer[i] # 0 \/ text_layer[i] # None)



\* a cell holds a colour and a text override and no dot, after a pixel
\* operation
C26_Witness ==
    /\ call.op \in {"unset_pixel", "unset_pixel_screen", "toggle_pixel_screen",
                    "set_pixel", "set_pixel_screen"}
    /\ \E i \in 1..Len(colors) :
           colors[i] # None /\ buffer[i] = 0 /\ text_layer[i] # None

\* the last dot of a coloured cell without text was unset: the colour went
\* with it
C26_WitnessUnset ==
    /\ call.op \in {"unset_pixel", "unset_pixel_screen", "toggle_pixel_screen"}
    /\ \E i \in 1..Len(colors) :
           /\ prev.colors[i] # None
           /\ prev.buffer[i] # 0
           /\ prev.text_layer[i] = None
           /\ buffer[i] = 0
           /\ colors[i] = None

\* a canvas with a coloured dot was cleared
C26_WitnessClear ==
    /\ call.op = "clear"
    /\ \E i \in 1..Len(colors) : prev.colors[i] # None /\ prev.buffer[i] # 0



\* whether a colour is in force after the first n of the tokens ts: the
\* last escape sequence among them is one that sets a colour
RECURSIVE ColouredAfter(_, _)
ColouredAfter(ts, n) ==
    IF n = 0 THEN FALSE
    ELSE IF IsEscape(ts[n]) THEN IsColourSet(ts[n])
    ELSE ColouredAfter(ts, n - 1)

\* the line feed and the characters of the border
FrameChars == {NL, BoxV, BoxH, BoxTL, BoxTR, BoxBL, BoxBR}

\* C27: in the output of render_to, colour never leaks out of a row's
\* cells: at every newline and at every character of the border (the
\* vertical bars left and right of a row, the lines above and below the
\* rows) no colour is in force, every escape sequence that sets a colour
\* being followed by a reset before the right bar or the newline of its row.
C27_NoColourLeak ==
    call.op \in {"render", "render_with_options", "render_to"} =>
        \A ts \in {Tokens(Output)} :
            \A n \in 1..Len(ts) :
                ts[n] \in FrameChars => ~ColouredAfter(ts, n - 1)

\* two rows were rendered in a border, the last cell of the first row
\* coloured: the row's right bar and newline follow a reset
C27_Witness ==
    /\ Rendered
    /\ Bordered
    /\ prev.width = 1 /\ prev.height = 2
    /\ ColourAt(0, 0) # None
    /\ ColourAt(1, 0) # None
    /\ Cardinality(ResetsIn(EscapesAfter(0))) = 1

\* a sink rejected a write after a colour had been set
C27_WitnessRejected ==
    /\ call.op = "render_to"
    /\ ret.result # "Ok"
    /\ \E i \in 1..Len(Output) : Output[i] = 27



\* the pixel (x, y), in the coordinates of the last line call, was set
\* before the call
SetBefore(x, y) ==
    IF call.op = "line"
    THEN Lit(prev.buffer, prev.width, x, PixH - 1 - y)
    ELSE Lit(prev.buffer, prev.width, x, y)

\* the last call drew a line between two points of the pixel rectangle
LineInside ==
    /\ call.op \in {"line", "line_screen"}
    /\ InRect(call.args[1], call.args[2])
    /\ InRect(call.args[3], call.args[4])

\* the pixels S are n + 1 pixels that lead from a to b, each 8-adjacent to
\* the next, where n is the larger of the two distances from a to b: each
\* step then advances by one along the axis of that distance, so S holds one
\* pixel for each coordinate on that axis, neighbours no more than one apart
\* on the other axis
Chain(S, a, b) ==
    LET major == IF Abs(b[1] - a[1]) >= Abs(b[2] - a[2]) THEN 1 ELSE 2
        minor == 3 - major
        at(m) == {p \in S : p[major] = m}
    IN  /\ Cardinality(S) = Abs(b[major] - a[major]) + 1
        /\ a \in S
        /\ b \in S
        /\ S \subseteq Box(a, b)
        /\ \A m \in Between(a[major], b[major]) : at(m) # {}
        /\ \A p \in S, q \in S :
               Abs(p[major] - q[major]) = 1 => Abs(p[minor] - q[minor]) <= 1

\* C28: for endpoints both inside the pixel rectangle, line / line_screen
\* returns, sets the pixels of both endpoints, and sets exactly
\* max(|x1-x0|, |y1-y0|) + 1 pixels, each consecutive pair 8-adjacent, all
\* inside the bounding box of the two endpoints; it clears no mask bit and
\* leaves text_layer as it was.
C28_WalkInside ==
    LineInside =>
        LET a == <<call.args[1], call.args[2]>>
            b == <<call.args[3], call.args[4]>>
            all == (0..(PixW - 1)) \X (0..(PixH - 1))
            before == {p \in all : SetBefore(p[1], p[2])}
            after == {p \in all : SetAt(p[1], p[2])}
        IN  /\ ret = <<>>
            /\ before \subseteq after
            /\ \E again \in SUBSET before :
                   Chain((after \ before) \cup again, a, b)
            /\ text_layer = prev.text_layer

\* a line of five pixels that is neither straight nor diagonal was drawn
\* between two points of the canvas
C28_Witness ==
    /\ LineInside
    /\ Abs(call.args[3] - call.args[1]) = 1
    /\ Abs(call.args[4] - call.args[2]) = 4
    /\ Cardinality(Dots) = 5

\* a line was drawn through a dot the canvas held, off its endpoints
C28_WitnessOverDot ==
    /\ LineInside
    /\ \E x \in 0..(PixW - 1), y \in 0..(PixH - 1) :
           /\ SetBefore(x, y)
           /\ <<x, y>> \in Box(<<call.args[1], call.args[2]>>,
                               <<call.args[3], call.args[4]>>)
           /\ <<x, y>> # <<call.args[1], call.args[2]>>
           /\ <<x, y>> # <<call.args[3], call.args[4]>>
    /\ Cardinality(Dots) >= 3

\* a line was drawn over a dot that is not on it
C28_WitnessBesideDot ==
    /\ LineInside
    /\ Cardinality(Dots) = Abs(call.args[3] - call.args[1]) + 2
    /\ Abs(call.args[4] - call.args[2]) = 0
    /\ \E i \in 1..Len(prev.buffer) : prev.buffer[i] # 0

\* a line was drawn through a cell that holds a text
C28_WitnessText ==
    /\ LineInside
    /\ \E i \in 1..Len(buffer) :
           text_layer[i] # None /\ buffer[i] # 0 /\ prev.buffer[i] = 0



\* the last call was the second of two toggle_pixel_screen(x, y, c) calls
\* in a row on a pixel of the canvas
ToggledTwice ==
    /\ call.op = "toggle_pixel_screen"
    /\ first # <<>>
    /\ ArgsInBounds

\* the mask m with the dot b flipped
Flipped(m, b) == IF BitAnd(m, b) # 0 THEN m - b ELSE m + b

\* C29: toggle_pixel_screen(x, y, c) applied twice in a row to an in-bounds
\* pixel restores the mask buffer to its value before the first call (the
\* first call flips the bit, the second flips it back), and leaves
\* text_layer and every other cell untouched.
C29_ToggleTwice ==
    ToggledTwice =>
        \A before \in {first[1].prev} :
            /\ prev.buffer = [before.buffer EXCEPT
                                  ![ArgCell] = Flipped(before.buffer[ArgCell],
                                                       ArgBit)]
            /\ buffer = before.buffer
            /\ prev.text_layer = before.text_layer
            /\ text_layer = before.text_layer
            /\ \A i \in 1..Len(buffer) :
                   i # ArgCell => /\ prev.colors[i] = before.colors[i]
                                  /\ colors[i] = before.colors[i]

\* a pixel that was not set, in a cell with another dot and next to a cell
\* with a colour, was toggled twice
C29_Witness ==
    /\ ToggledTwice
    /\ BitAnd(first[1].prev.buffer[ArgCell], ArgBit) = 0
    /\ first[1].prev.buffer[ArgCell] # 0
    /\ BitAnd(prev.buffer[ArgCell], ArgBit) # 0

\* a pixel that was set was toggled twice
C29_WitnessSet ==
    /\ ToggledTwice
    /\ BitAnd(first[1].prev.buffer[ArgCell], ArgBit) # 0
    /\ BitAnd(prev.buffer[ArgCell], ArgBit) = 0
    /\ BitAnd(buffer[ArgCell], ArgBit) # 0

\* the only dot of a coloured cell was toggled twice: the mask is restored,
\* the colour is not
C29_WitnessColour ==
    /\ ToggledTwice
    /\ first[1].prev.buffer[ArgCell] = ArgBit
    /\ first[1].prev.colors[ArgCell] # None
    /\ colors[ArgCell] # first[1].prev.colors[ArgCell]



\* the last call was a pixel unset: unset_pixel, unset_pixel_screen, or a
\* toggle_pixel_screen of a pixel that was set
PixelUnset ==
    \/ call.op \in {"unset_pixel", "unset_pixel_screen"}
    \/ /\ call.op = "toggle_pixel_screen"
       /\ ArgsInBounds
       /\ BitAnd(prev.buffer[ArgCell], ArgBit) # 0

\* the cells that held a text override keep their colour
TextColoursKept ==
    \A i \in 1..Len(colors) :
        prev.text_layer[i] # None => colors[i] = prev.colors[i]

\* C30: unset_pixel / unset_pixel_screen / toggle_pixel_screen never change
\* the colour of a cell that holds a text override: a colour given to a
\* cell through set_char is preserved by pixel unsets on that cell,
\* whatever the cell's mask.
C30_TextColourPreserved == PixelUnset => TextColoursKept

\* the same for unsets of a pixel of the canvas only
C30_TextColourPreservedInBounds ==
    (PixelUnset /\ ArgsInBounds) => TextColoursKept

\* the same for unsets of a pixel that was set only
C30_TextColourPreservedOfSetPixel ==
    (/\ PixelUnset
     /\ ArgsInBounds
     /\ BitAnd(prev.buffer[ArgCell], ArgBit) # 0) => TextColoursKept

\* what does hold: a pixel unset that leaves a dot in the cell keeps the
\* cell's colour, and so does one of a pixel of another cell
C30_KeptWhileDotsRemain ==
    (PixelUnset /\ ArgsInBounds) =>
        \A i \in 1..Len(colors) :
            (i # ArgCell \/ buffer[i] # 0) => colors[i] = prev.colors[i]


====
